---- MODULE Spec2Model ----
(***************************************************************************)
(* Model of the spack-installer job queue: the JSON job store              *)
(* (database.py), the scheduler (scheduler.py), the queue manager          *)
(* (queue_manager.py), the installation worker (worker.py) and the         *)
(* store-manager singleton used by the RPC handlers (worker_daemon.py).    *)
(*                                                                         *)
(* Conventions.  Python None is None (-1) for numbers and NoMsg for text.  *)
(* Timestamps are seconds on the clock `now`; several calls may read the   *)
(* same clock value.  A job created by create_job has no retry keys until  *)
(* create_retry_job adds them: retry_fields records whether the keys are   *)
(* present, and while it is FALSE the retry fields hold the defaults       *)
(* every reader substitutes.                                               *)
(***************************************************************************)
EXTENDS Integers, Sequences, FiniteSets, TLC

\* ------------------------------------------------------------------ bounds
MaxRetryJobs == 5
MaxPlanJobs == 3
MaxCrashJobs == 2
MaxStopJobs == 2
MaxQueueJobs == 2
MaxRpcJobs == 2
MaxOrderJobs == 3
MaxStatusJobs == 2
MaxInstallJobs == 1
MaxInstallTicks == 2
MaxOutputLines == 1
MaxJobs == 2
MaxTicks == 1
MaxChain == 4
MaxConcJobs == 2
MaxLockJobs == 2
MaxSchedJobs == 2

\* ------------------------------------------------------- program constants
DEFAULT_MAX_RETRIES == 3
RETRY_BACKOFF_FACTOR == 2
DEFAULT_RETRY_DELAY == 60
MAX_WORKER_HEARTBEAT_AGE == 60
WORKER_HEARTBEAT_INTERVAL == 30
DEFAULT_JOB_TIMEOUT_MULTIPLIER == 2
DefaultRpcEstimatedTime == 7200
SpecCommandEstimate == 60
SecondsPerDay == 86400

None == -1
NoMsg == "none"

Pkgs == {"A", "B"}
Priorities == {"high", "medium", "low"}
Statuses == {"pending", "running", "completed", "failed", "cancelled"}
Terminal == {"completed", "failed", "cancelled"}

VARIABLES
  db,        \* the store file: [jobs, logs, worker_status, next_job_id]
  now,       \* the wall clock, in seconds
  ticks,     \* number of clock advances so far
  last,      \* the operation performed by the last step and its result
  workers,   \* per worker: position in worker.py and the fields of self
  clients,   \* per client thread: position inside a queue-manager call
  sjobs,     \* scheduler input: the job list
  sinstalled,\* scheduler input: the installed package names
  sout,      \* scheduler output
  _db_manager, \* per process: the module-level store manager, or NoInstance
  lock,      \* per store manager instance: the thread holding its _lock
  threads,   \* per thread: position in get_db_manager or in a transaction
  install,   \* the subprocess of _run_command_with_streaming and its pipe
  status_call, \* a get_queue_status call: its position and what it has read
  analysis,  \* the last result of a scheduler or queue analysis call
  rpc        \* one connection of the socket server: request, position, responses

vars == <<db, now, ticks, last, workers, clients, sjobs, sinstalled, sout,
          _db_manager, lock, threads, install, status_call, analysis, rpc>>
callVars == <<status_call, analysis, rpc>>
schedVars == <<sjobs, sinstalled, sout>>
lockVars == <<_db_manager, lock, threads>>
threadVars == <<workers, clients>>

\* ----------------------------------------------------------------- helpers
RECURSIVE Pow(_, _)
Pow(b, e) == IF e <= 0 THEN 1 ELSE b * Pow(b, e - 1)

ToSet(s) == {s[i] : i \in 1..Len(s)}

Min2(a, b) == IF a <= b THEN a ELSE b

\* index of the first job with this id (the code's `for ... break`), 0 if none
FindJob(jobs, id) ==
  IF \E i \in 1..Len(jobs) : jobs[i].id = id
    THEN CHOOSE i \in 1..Len(jobs) :
           /\ jobs[i].id = id
           /\ \A k \in 1..(i - 1) : jobs[k].id /= id
    ELSE 0

\* ------------------------------------------------------------- store file
initial_data ==
  [jobs |-> <<>>,
   logs |-> <<>>,
   worker_status |-> [present |-> FALSE, is_active |-> FALSE,
                      current_job_id |-> None, last_heartbeat |-> None,
                      started_at |-> None, process_id |-> None],
   next_job_id |-> 1]

LogEntry(data, job_id, level, message, t) ==
  [id |-> Len(data.logs) + 1, job_id |-> job_id, timestamp |-> t,
   level |-> level, message |-> message]

\* create_job: result.ok = FALSE is the ValueError, raised before any write
create_job_body(data, package_name, priority, estimated_time, dependencies, t) ==
  LET job_id == data.next_job_id
      job == [id |-> job_id, package_name |-> package_name,
              priority |-> priority, status |-> "pending",
              estimated_time |-> estimated_time, actual_time |-> None,
              submitted_at |-> t, started_at |-> None, completed_at |-> None,
              error_message |-> NoMsg, dependencies_list |-> dependencies,
              retry_fields |-> FALSE, retry_count |-> 0,
              max_retries |-> DEFAULT_MAX_RETRIES, last_retry_at |-> None,
              retry_delay |-> DEFAULT_RETRY_DELAY, is_retry |-> FALSE,
              original_job_id |-> None]
      d1 == [data EXCEPT !.next_job_id = @ + 1, !.jobs = Append(@, job)]
      d2 == [d1 EXCEPT !.logs = Append(@, LogEntry(d1, job_id, "INFO", <<"Job submitted", package_name>>, t))]
  IN [data |-> d2, ok |-> TRUE, id |-> job_id]

create_job_no_check(data, package_name, priority, estimated_time, dependencies, t) ==
  create_job_body(data, package_name, priority, estimated_time, dependencies, t)

create_job(data, package_name, priority, estimated_time, dependencies, t) ==
  LET existing == {i \in 1..Len(data.jobs) :
                     /\ data.jobs[i].package_name = package_name
                     /\ data.jobs[i].status \in {"pending", "running"}}
  IN IF existing /= {}
       THEN [data |-> data, ok |-> FALSE,
             id |-> data.jobs[CHOOSE i \in existing : \A k \in existing : i <= k].id]
       ELSE create_job_body(data, package_name, priority, estimated_time, dependencies, t)

\* get_job_by_id: the stored record with the reader's defaults (which the
\* record already holds while retry_fields is FALSE); found = FALSE is None
get_job_by_id(data, job_id) ==
  LET i == FindJob(data.jobs, job_id)
  IN IF i = 0 THEN [found |-> FALSE] ELSE [found |-> TRUE, job |-> data.jobs[i]]

\* stable insertion of x after every element whose submitted_at is >= x's
RECURSIVE InsertDesc(_, _)
InsertDesc(sorted, x) ==
  IF sorted = <<>> THEN <<x>>
  ELSE IF Head(sorted).submitted_at >= x.submitted_at
         THEN <<Head(sorted)>> \o InsertDesc(Tail(sorted), x)
         ELSE <<x>> \o sorted

RECURSIVE SortDesc(_)
SortDesc(s) ==
  IF s = <<>> THEN <<>>
  ELSE InsertDesc(SortDesc(SubSeq(s, 1, Len(s) - 1)), s[Len(s)])

\* get_all_jobs(status): filter, then sort by submitted_at descending
get_all_jobs(data, status) ==
  SortDesc(SelectSeq(data.jobs, LAMBDA j : status = "all" \/ j.status = status))

\* variant: the status-change entry is always logged at INFO
update_job_status_info_level(data, job_id, status, started_at, completed_at, actual_time, error_message, t) ==
  LET i == FindJob(data.jobs, job_id)
  IN IF i = 0 THEN [data |-> data, ok |-> FALSE]
     ELSE LET j0 == data.jobs[i]
              j1 == [j0 EXCEPT !.status = status,
                               !.started_at = IF started_at /= None THEN started_at ELSE @,
                               !.completed_at = IF completed_at /= None THEN completed_at ELSE @,
                               !.actual_time = IF actual_time /= None THEN actual_time ELSE @,
                               !.error_message = IF error_message /= NoMsg THEN error_message ELSE @]
              entry == LogEntry(data, job_id, "INFO",
                                <<"Job status changed to", status, error_message>>, t)
          IN [data |-> [data EXCEPT !.jobs[i] = j1, !.logs = Append(@, entry)],
              ok |-> TRUE]

\* update_job_status: unconditional on the current status
update_job_status(data, job_id, status, started_at, completed_at, actual_time, error_message, t) ==
  LET i == FindJob(data.jobs, job_id)
  IN IF i = 0 THEN [data |-> data, ok |-> FALSE]
     ELSE LET j0 == data.jobs[i]
              j1 == [j0 EXCEPT !.status = status,
                               !.started_at = IF started_at /= None THEN started_at ELSE @,
                               !.completed_at = IF completed_at /= None THEN completed_at ELSE @,
                               !.actual_time = IF actual_time /= None THEN actual_time ELSE @,
                               !.error_message = IF error_message /= NoMsg THEN error_message ELSE @]
              entry == LogEntry(data, job_id,
                                IF status = "failed" THEN "ERROR" ELSE "INFO",
                                <<"Job status changed to", status, error_message>>, t)
          IN [data |-> [data EXCEPT !.jobs[i] = j1, !.logs = Append(@, entry)],
              ok |-> TRUE]

add_job_log(data, job_id, level, message, t) ==
  [data EXCEPT !.logs = Append(@, LogEntry(data, job_id, level, message, t))]

get_completed_package_names(data) ==
  {data.jobs[i].package_name : i \in {k \in 1..Len(data.jobs) : data.jobs[k].status = "completed"}}

cleanup_old_jobs_renumber(data, keep_days, t) ==
  LET cutoff_date == t - keep_days * SecondsPerDay
      deleted(job) == /\ job.status \in Terminal
                      /\ job.completed_at /= None
                      /\ job.completed_at < cutoff_date
      jobs_to_keep == SelectSeq(data.jobs, LAMBDA j : ~deleted(j))
      job_ids == {jobs_to_keep[i].id : i \in 1..Len(jobs_to_keep)}
  IN [data |-> [data EXCEPT !.jobs = jobs_to_keep,
                            !.logs = SelectSeq(@, LAMBDA l : l.job_id \in job_ids),
                            !.next_job_id = Len(jobs_to_keep) + 1],
      deleted_count |-> Len(data.jobs) - Len(jobs_to_keep)]

\* variant: the log entries of the deleted jobs stay
cleanup_old_jobs_keeps_logs(data, keep_days, t) ==
  LET cutoff_date == t - keep_days * SecondsPerDay
      deleted(job) == /\ job.status \in Terminal
                      /\ job.completed_at /= None
                      /\ job.completed_at < cutoff_date
      jobs_to_keep == SelectSeq(data.jobs, LAMBDA j : ~deleted(j))
  IN [data |-> [data EXCEPT !.jobs = jobs_to_keep],
      deleted_count |-> Len(data.jobs) - Len(jobs_to_keep)]

cleanup_old_jobs(data, keep_days, t) ==
  LET cutoff_date == t - keep_days * SecondsPerDay
      deleted(job) == /\ job.status \in Terminal
                      /\ job.completed_at /= None
                      /\ job.completed_at < cutoff_date
      jobs_to_keep == SelectSeq(data.jobs, LAMBDA j : ~deleted(j))
      job_ids == {jobs_to_keep[i].id : i \in 1..Len(jobs_to_keep)}
  IN [data |-> [data EXCEPT !.jobs = jobs_to_keep,
                            !.logs = SelectSeq(@, LAMBDA l : l.job_id \in job_ids)],
      deleted_count |-> Len(data.jobs) - Len(jobs_to_keep)]

\* create_retry_job: result.ok = FALSE is the None return; the transaction
\* still writes the data back
create_retry_job_body(data, original_job_id, t) ==
  LET i == FindJob(data.jobs, original_job_id)
      o == data.jobs[i]
      retry_count == o.retry_count + 1
      retry_delay == o.retry_delay * Pow(RETRY_BACKOFF_FACTOR, retry_count - 1)
      job_id == data.next_job_id
      retry_job == [id |-> job_id, package_name |-> o.package_name,
                    priority |-> o.priority, status |-> "pending",
                    estimated_time |-> o.estimated_time, actual_time |-> None,
                    submitted_at |-> t, started_at |-> None, completed_at |-> None,
                    error_message |-> NoMsg, dependencies_list |-> o.dependencies_list,
                    retry_fields |-> TRUE, retry_count |-> retry_count,
                    max_retries |-> o.max_retries, last_retry_at |-> t,
                    retry_delay |-> retry_delay, is_retry |-> TRUE,
                    \* original_job.get('original_job_id', original_job_id): the
                    \* key is always present by now, so the default is never used
                    original_job_id |-> o.original_job_id]
      d1 == [data EXCEPT !.next_job_id = @ + 1,
                         !.jobs = Append([@ EXCEPT ![i].retry_fields = TRUE,
                                                   ![i].retry_count = retry_count,
                                                   ![i].last_retry_at = t], retry_job)]
      d2 == [d1 EXCEPT !.logs = Append(@, LogEntry(d1, job_id, "INFO",
                                  <<"Retry job created", "for original job">>, t))]
      d3 == [d2 EXCEPT !.logs = Append(@, LogEntry(d2, original_job_id, "INFO",
                                  <<"Retry attempt created", "as job">>, t))]
  IN IF i = 0 THEN [data |-> data, ok |-> FALSE, id |-> None]
     ELSE IF o.status /= "failed" THEN [data |-> data, ok |-> FALSE, id |-> None]
     ELSE [data |-> d3, ok |-> TRUE, id |-> job_id]

create_retry_job_early_limit(data, original_job_id, t) ==
  LET i == FindJob(data.jobs, original_job_id)
  IN IF i = 0 THEN [data |-> data, ok |-> FALSE, id |-> None]
     ELSE IF data.jobs[i].status /= "failed" THEN [data |-> data, ok |-> FALSE, id |-> None]
     ELSE IF data.jobs[i].retry_count + 1 >= data.jobs[i].max_retries
       THEN [data |-> [data EXCEPT !.jobs[i].retry_fields = TRUE], ok |-> FALSE, id |-> None]
     ELSE create_retry_job_body(data, original_job_id, t)

create_retry_job_clears_error(data, original_job_id, t) ==
  LET i == FindJob(data.jobs, original_job_id)
      r == create_retry_job_body(data, original_job_id, t)
  IN IF i = 0 THEN [data |-> data, ok |-> FALSE, id |-> None]
     ELSE IF data.jobs[i].status /= "failed" THEN [data |-> data, ok |-> FALSE, id |-> None]
     ELSE IF data.jobs[i].retry_count >= data.jobs[i].max_retries
       THEN [data |-> [data EXCEPT !.jobs[i].retry_fields = TRUE], ok |-> FALSE, id |-> None]
     ELSE [r EXCEPT !.data.jobs[i].error_message = NoMsg]

create_retry_job(data, original_job_id, t) ==
  LET i == FindJob(data.jobs, original_job_id)
  IN IF i = 0 THEN [data |-> data, ok |-> FALSE, id |-> None]
     ELSE IF data.jobs[i].status /= "failed" THEN [data |-> data, ok |-> FALSE, id |-> None]
     ELSE IF data.jobs[i].retry_count >= data.jobs[i].max_retries
       \* refused after the missing retry keys were filled in
       THEN [data |-> [data EXCEPT !.jobs[i].retry_fields = TRUE], ok |-> FALSE, id |-> None]
     ELSE create_retry_job_body(data, original_job_id, t)

get_worker_status(data) == data.worker_status

update_worker_status(data, is_active, current_job_id, started_at, process_id, t) ==
  LET w0 == [data.worker_status EXCEPT
               !.present = TRUE,
               !.is_active = is_active,
               !.current_job_id = current_job_id,
               !.last_heartbeat = t,
               !.started_at = IF started_at /= None THEN started_at ELSE @,
               !.process_id = IF process_id /= None THEN process_id ELSE @]
  IN [data EXCEPT !.worker_status =
        IF is_active THEN w0
        ELSE [w0 EXCEPT !.started_at = None, !.current_job_id = None, !.process_id = None]]

\* ---------------------------------------------------------------- scheduler
\* Scores are kept exact by scaling with 3600: ScoreScale * score of the code,
\* with estimated_time and the age in seconds.
ScoreScale == 3600

priority_weights(priority) ==
  CASE priority = "high" -> 3
    [] priority = "medium" -> 2
    [] priority = "low" -> 1
    [] OTHER -> 2

\* _build_dependency_graph: package -> set of dependencies; a later job of
\* the same package replaces the earlier entry
_build_dependency_graph(jobs) ==
  [p \in {jobs[i].package_name : i \in 1..Len(jobs)} |->
     LET k == CHOOSE i \in 1..Len(jobs) :
                /\ jobs[i].package_name = p
                /\ \A m \in (i + 1)..Len(jobs) : jobs[m].package_name /= p
     IN ToSet(jobs[k].dependencies_list)]

_count_unlocked_jobs(package_name, dependency_graph) ==
  Cardinality({pkg \in DOMAIN dependency_graph : package_name \in dependency_graph[pkg]})

calculate_job_score(job, dependency_graph, t) ==
  (4 - priority_weights(job.priority)) * 100 * ScoreScale
  + Len(job.dependencies_list) * 10 * ScoreScale
  + Min2(job.estimated_time, 2 * ScoreScale) * 5
  - Min2(t - job.submitted_at, 24 * ScoreScale) * 2
  - _count_unlocked_jobs(job.package_name, dependency_graph) * 15 * ScoreScale

\* variant: every pending job counts as ready
_find_ready_jobs_ignores_dependencies(jobs, installed_packages) ==
  SelectSeq(jobs, LAMBDA j : j.status = "pending")

_find_ready_jobs(jobs, installed_packages) ==
  SelectSeq(jobs, LAMBDA j : /\ j.status = "pending"
                             /\ ToSet(j.dependencies_list) \subseteq installed_packages)

HeapLess_by_score_only(s1, id1, s2, id2) == s1 < s2

\* the heap orders the entries (score, job.id, job)
HeapLess(s1, id1, s2, id2) == s1 < s2 \/ (s1 = s2 /\ id1 < id2)

\* heappush of every ready job, then one heappop: the least entry
RECURSIVE HeapMin(_, _, _, _)
HeapMin(ready_jobs, dependency_graph, t, best) ==
  IF ready_jobs = <<>> THEN best
  ELSE LET job == Head(ready_jobs)
           better == HeapLess(calculate_job_score(job, dependency_graph, t), job.id,
                              calculate_job_score(best, dependency_graph, t), best.id)
       IN HeapMin(Tail(ready_jobs), dependency_graph, t, IF better THEN job ELSE best)

NoJob == [found |-> FALSE]

get_next_job(jobs, installed_packages, t) ==
  LET pending_jobs == SelectSeq(jobs, LAMBDA j : j.status = "pending")
      ready_jobs == _find_ready_jobs(pending_jobs, installed_packages)
      dependency_graph == _build_dependency_graph(pending_jobs)
  IN IF pending_jobs = <<>> THEN NoJob
     ELSE IF ready_jobs = <<>> THEN NoJob
     ELSE [found |-> TRUE,
           job |-> HeapMin(Tail(ready_jobs), dependency_graph, t, Head(ready_jobs))]

\* list.remove: the first element equal to x is removed
RECURSIVE RemoveFirst(_, _)
RemoveFirst(seq, x) ==
  IF seq = <<>> THEN <<>>
  ELSE IF Head(seq) = x THEN Tail(seq)
  ELSE <<Head(seq)>> \o RemoveFirst(Tail(seq), x)

\* the key of the fallback choice: (-priority weight, number of
\* dependencies, submitted_at), compared as tuples
FallbackLess(a, b) ==
  LET wa == priority_weights(a.priority)
      wb == priority_weights(b.priority)
      da == Len(a.dependencies_list)
      dc == Len(b.dependencies_list)
  IN \/ wa > wb
     \/ wa = wb /\ da < dc
     \/ wa = wb /\ da = dc /\ a.submitted_at < b.submitted_at

\* min(remaining_jobs, key=...): the first job with the least key
RECURSIVE FallbackMin(_, _)
FallbackMin(jobs, best) ==
  IF jobs = <<>> THEN best
  ELSE FallbackMin(Tail(jobs), IF FallbackLess(Head(jobs), best) THEN Head(jobs) ELSE best)

\* variant of the loop of optimize_job_order: it stops when no job is ready
RECURSIVE optimize_loop_no_fallback(_, _, _, _)
optimize_loop_no_fallback(remaining_jobs, installed_packages, optimized_order, t) ==
  IF remaining_jobs = <<>> THEN optimized_order
  ELSE LET r == get_next_job(remaining_jobs, installed_packages, t)
       IN IF ~r.found THEN optimized_order
          ELSE optimize_loop_no_fallback(RemoveFirst(remaining_jobs, r.job),
                                         installed_packages \cup {r.job.package_name},
                                         Append(optimized_order, r.job), t)

\* the while loop of optimize_job_order
RECURSIVE optimize_loop(_, _, _, _)
optimize_loop(remaining_jobs, installed_packages, optimized_order, t) ==
  IF remaining_jobs = <<>> THEN optimized_order
  ELSE LET r == get_next_job(remaining_jobs, installed_packages, t)
           next_job == IF r.found THEN r.job
                       ELSE FallbackMin(Tail(remaining_jobs), Head(remaining_jobs))
       IN optimize_loop(RemoveFirst(remaining_jobs, next_job),
                        installed_packages \cup {next_job.package_name},
                        Append(optimized_order, next_job), t)

optimize_job_order_no_fallback(jobs, t) ==
  LET pending_jobs == SelectSeq(jobs, LAMBDA j : j.status = "pending")
  IN IF pending_jobs = <<>> THEN <<>> ELSE optimize_loop_no_fallback(pending_jobs, {}, <<>>, t)

optimize_job_order(jobs, t) ==
  LET pending_jobs == SelectSeq(jobs, LAMBDA j : j.status = "pending")
  IN IF pending_jobs = <<>> THEN <<>> ELSE optimize_loop(pending_jobs, {}, <<>>, t)

\* the package names in a fixed order; iterating a set of names visits them
\* in this order or in the reverse one
PkgOrder == <<"A", "B", "C", "D">>

Reverse(seq) == [i \in 1..Len(seq) |-> seq[Len(seq) + 1 - i]]

\* the elements of a set of names in iteration order
NeighborSeq(names, reverse) ==
  SelectSeq(IF reverse THEN Reverse(PkgOrder) ELSE PkgOrder, LAMBDA p : p \in names)

\* the keys of the dependency graph in insertion order: the packages in the
\* order of their first job
RECURSIVE GraphKeys(_, _)
GraphKeys(jobs, seen) ==
  IF jobs = <<>> THEN <<>>
  ELSE IF Head(jobs).package_name \in seen THEN GraphKeys(Tail(jobs), seen)
  ELSE <<Head(jobs).package_name>>
       \o GraphKeys(Tail(jobs), seen \cup {Head(jobs).package_name})

\* has_cycle_util: the result is the visited set after the call and the
\* list of (node, neighbor) pairs found; rec_stack is as before on return
RECURSIVE has_cycle_util(_, _, _, _, _)
RECURSIVE visit_neighbors(_, _, _, _, _, _)
has_cycle_util(node, visited, rec_stack, graph, reverse) ==
  visit_neighbors(node,
                  NeighborSeq(IF node \in DOMAIN graph THEN graph[node] ELSE {}, reverse),
                  visited \cup {node}, rec_stack \cup {node}, graph, reverse)

\* the for loop of has_cycle_util over the neighbors still to visit
visit_neighbors(node, neighbors, visited, rec_stack, graph, reverse) ==
  IF neighbors = <<>> THEN [visited |-> visited, cycles |-> <<>>]
  ELSE LET neighbor == Head(neighbors)
           r1 == IF neighbor \notin visited
                   THEN has_cycle_util(neighbor, visited, rec_stack, graph, reverse)
                   ELSE [visited |-> visited,
                         cycles |-> IF neighbor \in rec_stack
                                      THEN << <<node, neighbor>> >> ELSE <<>>]
           r2 == visit_neighbors(node, Tail(neighbors), r1.visited, rec_stack, graph, reverse)
       IN [visited |-> r2.visited, cycles |-> r1.cycles \o r2.cycles]

\* the loop of detect_circular_dependencies over the nodes of the graph
RECURSIVE detect_loop(_, _, _, _)
detect_loop(nodes, visited, graph, reverse) ==
  IF nodes = <<>> THEN <<>>
  ELSE IF Head(nodes) \in visited THEN detect_loop(Tail(nodes), visited, graph, reverse)
  ELSE LET r == has_cycle_util(Head(nodes), visited, {}, graph, reverse)
       IN r.cycles \o detect_loop(Tail(nodes), r.visited, graph, reverse)

detect_circular_dependencies(jobs, reverse) ==
  detect_loop(GraphKeys(jobs, {}), {}, _build_dependency_graph(jobs), reverse)

\* ------------------------------------------------------------ queue manager
\* the check each of cancel_job / mark_job_running / mark_job_completed makes
\* on the copy returned by get_job, before its update transaction
job_has_status(data, job_id, status) ==
  LET r == get_job_by_id(data, job_id)
  IN r.found /\ r.job.status = status

\* variant: the cancellation is propagated to the pending jobs that depend on
\* the cancelled job's package
cancel_job_write_cascade(data, job_id, t) ==
  LET r == update_job_status(data, job_id, "cancelled", None, t, None, NoMsg, t)
      pkg == get_job_by_id(data, job_id).job.package_name
  IN [r EXCEPT !.data.jobs =
        [k \in 1..Len(@) |->
           IF @[k].status = "pending" /\ pkg \in ToSet(@[k].dependencies_list)
             THEN [@[k] EXCEPT !.status = "cancelled"] ELSE @[k]]]

cancel_job_write(data, job_id, t) ==
  update_job_status(data, job_id, "cancelled", None, t, None, NoMsg, t)

mark_job_running_write(data, job_id, t) ==
  update_job_status(data, job_id, "running", t, None, None, NoMsg, t)

\* started_at is the value read by get_job, completed_at the clock read
\* between the two transactions
\* variant: every finished job is recorded as completed
mark_job_completed_write_always_completed(data, job_id, success, error_message, started_at, completed_at, t) ==
  update_job_status(data, job_id, "completed", None, completed_at,
                    IF started_at /= None THEN completed_at - started_at ELSE None,
                    error_message, t)

mark_job_completed_write(data, job_id, success, error_message, started_at, completed_at, t) ==
  update_job_status(data, job_id,
                    IF success THEN "completed" ELSE "failed",
                    None, completed_at,
                    IF started_at /= None THEN completed_at - started_at ELSE None,
                    error_message, t)

\* get_next_job_to_run, from the pending list and the completed set its two
\* reads returned
next_job_to_run(pending_jobs, installed_packages, t) ==
  IF pending_jobs = <<>> THEN NoJob
  ELSE get_next_job(pending_jobs, installed_packages, t)

get_next_job_to_run(data, t) ==
  next_job_to_run(get_all_jobs(data, "pending"), get_completed_package_names(data), t)

\* what the last step did: the operation, the package (submit) or job id it
\* was called with, and whether it succeeded; for a successful submit the id
\* is the new job's
Label(op, pkg, id, ok) == [op |-> op, pkg |-> pkg, id |-> id, ok |-> ok]

\* ------------------------------------------- one caller, one call at a time
Workers == {"w1", "w2"}
Clients == {"c1"}

\* the threads that obtain a store manager: an RPC handler thread and the
\* thread that constructs the worker, both of the server process, and the
\* main thread of a CLI process
Threads == {"handler", "worker", "cli"}
Procs == {"server", "cli"}
ProcOf(t) == IF t = "cli" THEN "cli" ELSE "server"
NoInstance == "none"
Free == "free"
NoOp == [kind |-> "none", package_name |-> "-", job_id |-> None]

\* no subprocess: before Popen
NoProcess ==
  [proc |-> "none", stage |-> "none", job_id |-> None, exit_code |-> None,
   pipe |-> 0, lines |-> 0, start_time |-> None, timeout_seconds |-> None,
   outcome |-> "none", ok |-> FALSE, error_msg |-> NoMsg]

\* no get_queue_status call in progress
NoStatusCall ==
  [pc |-> "idle", status_counts |-> [st \in Statuses |-> 0], worker_active |-> FALSE,
   current_job_id |-> None, pending_jobs |-> <<>>,
   result |-> [total_pending |-> 0, queue_length |-> 0, estimated_total_time |-> 0,
               next_job_id |-> None]]

\* no analysis call made yet
NoAnalysis == [op |-> "none", order |-> <<>>, cycles |-> <<>>, issues |-> <<>>]

\* a key that the JSON object does not have, and a value that is not a string
Absent == "<absent>"
NotAString == "<number>"

\* the fields of a request that the handlers look at; a request without
\* dependencies is handled as one with the empty list, None is a request
\* without estimated_time
NoParams ==
  [kind |-> "none", action |-> Absent, package_name |-> Absent, priority |-> Absent,
   dependencies |-> <<>>, estimated_time |-> None,
   job_id |-> None, status |-> Absent]

\* no connection accepted yet
NoRequest == [pc |-> "idle", request |-> NoParams, responses |-> <<>>]

\* a thread about to call QueueManager()
NewThread ==
  [pc |-> "new", db |-> NoInstance, op |-> NoOp, data |-> initial_data,
   checked |-> None, acked |-> {}]

\* a worker object after __init__ (pc "check": start_worker is about to ask
\* is_running) or a worker that is never started (pc "off")
NewWorker(pc) ==
  [pc |-> pc, running |-> FALSE, current_job_id |-> None,
   pending_jobs |-> <<>>, job_id |-> None, success |-> FALSE,
   error_message |-> NoMsg, started_at |-> None, completed_at |-> None,
   heartbeat_at |-> None, beating |-> FALSE]

IdleClient == [pc |-> "idle", job_id |-> None]

StoreInit ==
  /\ db = initial_data
  /\ now = 0
  /\ ticks = 0
  /\ last = Label("init", "-", None, TRUE)
  /\ clients = [c \in Clients |-> IdleClient]
  /\ sjobs = <<>>
  /\ sinstalled = {}
  /\ sout = NoJob
  /\ _db_manager = [p \in Procs |-> NoInstance]
  /\ lock = [t \in Threads |-> Free]
  /\ threads = [t \in Threads |-> NewThread]
  /\ install = NoProcess
  /\ status_call = NoStatusCall
  /\ analysis = NoAnalysis
  /\ rpc = NoRequest

Init ==
  /\ StoreInit
  /\ workers = [w \in Workers |-> NewWorker("off")]

Tick(d) ==
  /\ ticks < MaxTicks
  /\ now' = now + d
  /\ ticks' = ticks + 1
  /\ last' = Label("tick", "-", None, TRUE)
  /\ UNCHANGED <<db, threadVars, schedVars, lockVars, install, callVars>>

submit_job(p, prio, est, deps) ==
  /\ LET r == create_job(db, p, prio, est, deps, now)
     IN /\ db' = r.data
        /\ last' = Label("submit", p, r.id, r.ok)
  /\ UNCHANGED <<now, ticks, threadVars, schedVars, lockVars, install, callVars>>

\* variant: cancels a job that is pending or running
cancel_job_any_active(id) ==
  /\ IF job_has_status(db, id, "pending") \/ job_has_status(db, id, "running")
       THEN LET r == cancel_job_write(db, id, now)
            IN db' = r.data /\ last' = Label("cancel", "-", id, r.ok)
       ELSE db' = db /\ last' = Label("cancel", "-", id, FALSE)
  /\ UNCHANGED <<now, ticks, threadVars, schedVars, lockVars, install, callVars>>

cancel_job(id) ==
  /\ IF job_has_status(db, id, "pending")
       THEN LET r == cancel_job_write(db, id, now)
            IN db' = r.data /\ last' = Label("cancel", "-", id, r.ok)
       ELSE db' = db /\ last' = Label("cancel", "-", id, FALSE)
  /\ UNCHANGED <<now, ticks, threadVars, schedVars, lockVars, install, callVars>>

mark_job_running(id) ==
  /\ IF job_has_status(db, id, "pending")
       THEN LET r == mark_job_running_write(db, id, now)
            IN db' = r.data /\ last' = Label("mark_running", "-", id, r.ok)
       ELSE db' = db /\ last' = Label("mark_running", "-", id, FALSE)
  /\ UNCHANGED <<now, ticks, threadVars, schedVars, lockVars, install, callVars>>

mark_job_completed(id, success, error_message) ==
  /\ IF job_has_status(db, id, "running")
       THEN LET r == mark_job_completed_write(db, id, success, error_message,
                                              get_job_by_id(db, id).job.started_at, now, now)
            IN db' = r.data /\ last' = Label("mark_completed", "-", id, r.ok)
       ELSE db' = db /\ last' = Label("mark_completed", "-", id, FALSE)
  /\ UNCHANGED <<now, ticks, threadVars, schedVars, lockVars, install, callVars>>

retry_job_consumes_id(id) ==
  /\ LET r == create_retry_job(db, id, now)
     IN /\ db' = IF r.ok THEN r.data ELSE [r.data EXCEPT !.next_job_id = @ + 1]
        /\ last' = Label("retry", "-", id, r.ok)
  /\ UNCHANGED <<now, ticks, threadVars, schedVars, lockVars, install, callVars>>

retry_job(id) ==
  /\ LET r == create_retry_job(db, id, now)
     IN /\ db' = r.data
        /\ last' = Label("retry", "-", id, r.ok)
  /\ UNCHANGED <<now, ticks, threadVars, schedVars, lockVars, install, callVars>>

\* the label also carries the argument and the returned count
cleanup_completed_jobs(keep_days) ==
  /\ LET r == cleanup_old_jobs(db, keep_days, now)
     IN /\ db' = r.data
        /\ last' = [op |-> "cleanup", pkg |-> "-", id |-> None, ok |-> TRUE,
                    keep_days |-> keep_days, deleted_count |-> r.deleted_count]
  /\ UNCHANGED <<now, ticks, threadVars, schedVars, lockVars, install, callVars>>

\* the requests of the sequential specification
SubmitMenu ==
  {[package_name |-> "A", priority |-> "high", estimated_time |-> 300, dependencies |-> <<>>],
   [package_name |-> "B", priority |-> "low", estimated_time |-> 300, dependencies |-> <<"A">>]}
KeepDays == {0, 1}

\* ids are handed out up to the bound; a call that creates no job is always
\* possible
IdsLeft(bound) == db.next_job_id <= bound

JobIds(bound) == 1..bound

Next ==
  \/ Tick(SecondsPerDay)
  \/ \E s \in SubmitMenu :
       /\ submit_job(s.package_name, s.priority, s.estimated_time, s.dependencies)
       /\ IdsLeft(MaxJobs) \/ db'.next_job_id = db.next_job_id
  \/ \E id \in JobIds(MaxJobs) : cancel_job(id)
  \/ \E id \in JobIds(MaxJobs) : mark_job_running(id)
  \/ \E id \in JobIds(MaxJobs), success \in BOOLEAN :
       mark_job_completed(id, success, IF success THEN NoMsg ELSE "Exit code 1")
  \/ \E id \in JobIds(MaxJobs) :
       /\ retry_job(id)
       /\ IdsLeft(MaxJobs) \/ db'.next_job_id = db.next_job_id
  \/ \E k \in KeepDays : cleanup_completed_jobs(k)

Spec == Init /\ [][Next]_vars

\* ---------------------------------------------- retry chains of one package
\* The worker's loop body without interleaving inside a queue-manager call:
\* it takes the job get_next_job_to_run returns once its previous job is done.
worker_take_job ==
  /\ \A i \in 1..Len(db.jobs) : db.jobs[i].status /= "running"
  /\ get_next_job_to_run(db, now).found
  /\ mark_job_running(get_next_job_to_run(db, now).job.id)

NextRetry ==
  \/ /\ submit_job("A", "medium", 300, <<>>)
     /\ IdsLeft(MaxChain) \/ db'.next_job_id = db.next_job_id
  \/ worker_take_job
  \/ \E id \in JobIds(MaxChain), success \in BOOLEAN :
       mark_job_completed(id, success, IF success THEN NoMsg ELSE "Exit code 1")
  \/ \E id \in JobIds(MaxChain) :
       /\ retry_job(id)
       /\ IdsLeft(MaxChain) \/ db'.next_job_id = db.next_job_id

SpecRetry == Init /\ [][NextRetry]_vars

\* one root job, its failures and the retries of it and of its retry jobs
NextChain ==
  \/ db.jobs = <<>> /\ submit_job("A", "medium", 300, <<>>)
  \/ worker_take_job
  \/ \E id \in JobIds(MaxRetryJobs), success \in BOOLEAN :
       /\ mark_job_completed(id, success, IF success THEN NoMsg ELSE "Exit code 1")
       /\ db' /= db
  \/ \E id \in JobIds(MaxRetryJobs) :
       /\ retry_job(id)
       /\ IdsLeft(MaxRetryJobs)
       /\ db' /= db

SpecChain == Init /\ [][NextChain]_vars

\* ------------------------------------------------------------------ worker
\* One step per store transaction; the Python between two transactions
\* belongs to the step of the transaction that follows it.
Pid(w) == IF w = "w1" THEN 1 ELSE 2

is_running(data, t) ==
  LET worker_status == get_worker_status(data)
  IN /\ worker_status.present
     /\ worker_status.is_active
     /\ worker_status.last_heartbeat /= None
     /\ t - worker_status.last_heartbeat < MAX_WORKER_HEARTBEAT_AGE

_update_worker_status(data, w, is_active, current_job_id, t) ==
  update_worker_status(data, is_active, current_job_id,
                       IF is_active THEN t ELSE None,
                       IF is_active THEN Pid(w) ELSE None, t)

WorkerStep(w, pc, rec) ==
  /\ workers[w].pc = pc
  /\ workers' = [workers EXCEPT ![w] = rec]
  /\ last' = Label("worker", "-", None, TRUE)
  /\ UNCHANGED <<now, ticks, clients, schedVars, lockVars, install, callVars>>

\* start_worker: refuse to start when a live worker is recorded
w_is_running(w) ==
  /\ WorkerStep(w, "check",
       [workers[w] EXCEPT !.pc = IF is_running(db, now) THEN "exited" ELSE "start"])
  /\ UNCHANGED db

\* start(): record the worker as active, start the heartbeat thread
w_start(w) ==
  /\ WorkerStep(w, "start", [workers[w] EXCEPT !.pc = "loop", !.running = TRUE])
  /\ db' = _update_worker_status(db, w, TRUE, None, now)

\* _heartbeat_loop: one beat, then time.sleep(WORKER_HEARTBEAT_INTERVAL)
w_heartbeat(w) ==
  /\ workers[w].running
  /\ workers[w].heartbeat_at = None
       \/ now >= workers[w].heartbeat_at + WORKER_HEARTBEAT_INTERVAL
  /\ db' = _update_worker_status(db, w, TRUE, workers[w].current_job_id, now)
  /\ workers' = [workers EXCEPT ![w].heartbeat_at = now]
  /\ last' = Label("worker", "-", None, TRUE)
  /\ UNCHANGED <<now, ticks, clients, schedVars, lockVars, install, callVars>>

\* _main_loop, get_next_job_to_run: read the pending jobs
w_poll(w) ==
  /\ LET pending_jobs == get_all_jobs(db, "pending")
     IN WorkerStep(w, "loop",
          IF ~workers[w].running THEN [workers[w] EXCEPT !.pc = "stop"]
          ELSE IF pending_jobs = <<>> THEN workers[w]
          ELSE [workers[w] EXCEPT !.pc = "select", !.pending_jobs = pending_jobs])
  /\ UNCHANGED db

\* get_next_job_to_run: read the completed packages and choose
w_select(w) ==
  /\ LET r == next_job_to_run(workers[w].pending_jobs, get_completed_package_names(db), now)
     IN WorkerStep(w, "select",
          IF r.found
            THEN [workers[w] EXCEPT !.pc = "mark_read", !.pending_jobs = <<>>,
                                    !.job_id = r.job.id, !.current_job_id = r.job.id]
            ELSE [workers[w] EXCEPT !.pc = "loop", !.pending_jobs = <<>>])
  /\ UNCHANGED db

\* _execute_job, mark_job_running: the get_job check
w_mark_read(w) ==
  /\ WorkerStep(w, "mark_read",
       [workers[w] EXCEPT !.pc = IF job_has_status(db, workers[w].job_id, "pending")
                                   THEN "mark_write" ELSE "finally"])
  /\ UNCHANGED db

\* mark_job_running: the update
w_mark_write(w) ==
  LET r == mark_job_running_write(db, workers[w].job_id, now)
  IN /\ WorkerStep(w, "mark_write",
          [workers[w] EXCEPT !.pc = IF r.ok THEN "set_current" ELSE "finally"])
     /\ db' = r.data

w_set_current(w) ==
  /\ WorkerStep(w, "set_current", [workers[w] EXCEPT !.pc = "log_start"])
  /\ db' = _update_worker_status(db, w, TRUE, workers[w].job_id, now)

w_log_start(w) ==
  /\ WorkerStep(w, "log_start", [workers[w] EXCEPT !.pc = "install"])
  /\ db' = add_job_log(db, workers[w].job_id, "INFO", <<"Starting installation for user">>, now)

\* _run_spack_spec and _run_spack_install with a subprocess that prints
\* nothing: the log entries they write, in order, and the install result
InstallLogs(exit_code) ==
  << <<"INFO", <<"Getting package specification">> >>,
     <<"INFO", <<"Command completed with exit code", "0">> >>,
     <<"INFO", <<"Installation completed successfully">> >>,
     <<"INFO", <<"Package specification retrieved successfully">> >>,
     <<"INFO", <<"Executing command">> >>,
     <<"INFO", <<"Command completed with exit code", IF exit_code = 0 THEN "0" ELSE "1">> >>,
     IF exit_code = 0
       THEN <<"INFO", <<"Installation completed successfully">> >>
       ELSE <<"ERROR", <<"Command failed with exit code", "1">> >> >>

RECURSIVE add_job_logs(_, _, _, _)
add_job_logs(data, job_id, entries, t) ==
  IF entries = <<>> THEN data
  ELSE add_job_logs(add_job_log(data, job_id, Head(entries)[1], Head(entries)[2], t),
                    job_id, Tail(entries), t)

w_install(w, exit_code) ==
  /\ WorkerStep(w, "install",
       [workers[w] EXCEPT !.pc = "complete_read",
                          !.success = (exit_code = 0),
                          !.error_message = IF exit_code = 0 THEN NoMsg ELSE "Exit code 1"])
  /\ db' = add_job_logs(db, workers[w].job_id, InstallLogs(exit_code), now)

\* mark_job_completed: the get_job check, then completed_at = utcnow()
w_complete_read(w) ==
  /\ WorkerStep(w, "complete_read",
       IF job_has_status(db, workers[w].job_id, "running")
         THEN [workers[w] EXCEPT !.pc = "complete_write",
                                 !.started_at = get_job_by_id(db, workers[w].job_id).job.started_at,
                                 !.completed_at = now]
         ELSE [workers[w] EXCEPT !.pc = "final_log"])
  /\ UNCHANGED db

\* mark_job_completed: the update
w_complete_write(w) ==
  /\ WorkerStep(w, "complete_write",
       [workers[w] EXCEPT !.pc = "final_log", !.started_at = None, !.completed_at = None])
  /\ db' = mark_job_completed_write(db, workers[w].job_id, workers[w].success,
                                    workers[w].error_message, workers[w].started_at,
                                    workers[w].completed_at, now).data

w_final_log(w) ==
  /\ WorkerStep(w, "final_log", [workers[w] EXCEPT !.pc = "finally"])
  /\ db' = IF workers[w].success
             THEN add_job_log(db, workers[w].job_id, "INFO", <<"Installation completed successfully for user">>, now)
             ELSE add_job_log(db, workers[w].job_id, "ERROR", <<"Installation failed for user", workers[w].error_message>>, now)

\* the finally clause of _execute_job
w_finally(w) ==
  /\ WorkerStep(w, "finally",
       [workers[w] EXCEPT !.pc = "loop", !.current_job_id = None, !.job_id = None,
                          !.success = FALSE, !.error_message = NoMsg])
  /\ db' = _update_worker_status(db, w, TRUE, None, now)

WorkerNext(w) ==
  \/ w_is_running(w)
  \/ w_start(w)
  \/ w_heartbeat(w)
  \/ w_poll(w)
  \/ w_select(w)
  \/ w_mark_read(w)
  \/ w_mark_write(w)
  \/ w_set_current(w)
  \/ w_log_start(w)
  \/ \E exit_code \in {0, 1} : w_install(w, exit_code)
  \/ w_complete_read(w)
  \/ w_complete_write(w)
  \/ w_final_log(w)
  \/ w_finally(w)

\* the clock, while every running worker's heartbeat thread beats on time
TickLive(d) ==
  /\ \A w \in Workers : workers[w].running =>
        /\ workers[w].heartbeat_at /= None
        /\ now + d <= workers[w].heartbeat_at + WORKER_HEARTBEAT_INTERVAL
  /\ Tick(d)

\* ----------------------------------------------------------- client threads
\* cancel_job: the get_job check.  A check that fails returns False and
\* changes nothing: that call is a stuttering step.
c_cancel_read(c, id) ==
  /\ clients[c].pc = "idle"
  /\ job_has_status(db, id, "pending")
  /\ clients' = [clients EXCEPT ![c] = [pc |-> "cancel_write", job_id |-> id]]
  /\ last' = Label("cancel_check", "-", id, TRUE)
  /\ UNCHANGED <<db, now, ticks, workers, schedVars, lockVars, install, callVars>>

\* cancel_job: the update
c_cancel_write(c) ==
  /\ clients[c].pc = "cancel_write"
  /\ LET r == cancel_job_write(db, clients[c].job_id, now)
     IN /\ db' = r.data
        /\ last' = Label("cancel", "-", clients[c].job_id, r.ok)
  /\ clients' = [clients EXCEPT ![c] = IdleClient]
  /\ UNCHANGED <<now, ticks, workers, schedVars, lockVars, install, callVars>>

\* --------------------------- one worker and the clients of one shared store
ConcInit ==
  /\ StoreInit
  /\ workers = [w \in Workers |-> NewWorker(IF w = "w1" THEN "check" ELSE "off")]

\* Client calls that are refused or remove nothing leave the store as it is;
\* here they are stuttering steps.
NextConc ==
  \/ TickLive(WORKER_HEARTBEAT_INTERVAL)
  \/ \E s \in SubmitMenu :
       /\ submit_job(s.package_name, s.priority, s.estimated_time, s.dependencies)
       /\ IdsLeft(MaxConcJobs)
       /\ db' /= db
  \/ \E c \in Clients, id \in JobIds(MaxConcJobs) : c_cancel_read(c, id)
  \/ \E c \in Clients : c_cancel_write(c)
  \/ \E id \in JobIds(MaxConcJobs) :
       /\ retry_job(id)
       /\ IdsLeft(MaxConcJobs)
       /\ db' /= db
  \/ cleanup_completed_jobs(0) /\ db' /= db
  \/ \E w \in Workers : WorkerNext(w)

SpecConc == ConcInit /\ [][NextConc]_vars

\* ------------------------------ two start_worker calls against one store
\* The start-up of each worker is interleaved transaction by transaction; a
\* started worker then runs each half of _execute_job without interruption.
IndependentMenu ==
  {[package_name |-> "A", priority |-> "high", estimated_time |-> 300, dependencies |-> <<>>],
   [package_name |-> "B", priority |-> "low", estimated_time |-> 300, dependencies |-> <<>>]}

\* _main_loop and _execute_job up to the start of the installation
w_take_job(w) ==
  /\ workers[w].running
  /\ LET r == get_next_job_to_run(db, now)
     IN /\ r.found
        /\ job_has_status(db, r.job.id, "pending")
        /\ WorkerStep(w, "loop",
             [workers[w] EXCEPT !.pc = "install", !.job_id = r.job.id,
                                !.current_job_id = r.job.id])
        /\ db' = add_job_log(
                   _update_worker_status(mark_job_running_write(db, r.job.id, now).data,
                                         w, TRUE, r.job.id, now),
                   r.job.id, "INFO", <<"Starting installation for user">>, now)

\* _execute_job from the installation to the end of its finally clause
w_run_job(w, exit_code) ==
  LET job_id == workers[w].job_id
      success == (exit_code = 0)
      error_message == IF success THEN NoMsg ELSE "Exit code 1"
      installed == add_job_logs(db, job_id, InstallLogs(exit_code), now)
      r == get_job_by_id(installed, job_id)
      marked == IF r.found /\ r.job.status = "running"
                  THEN mark_job_completed_write(installed, job_id, success, error_message,
                                                r.job.started_at, now, now).data
                  ELSE installed
      logged == IF success
                  THEN add_job_log(marked, job_id, "INFO",
                                   <<"Installation completed successfully for user">>, now)
                  ELSE add_job_log(marked, job_id, "ERROR",
                                   <<"Installation failed for user", error_message>>, now)
  IN /\ WorkerStep(w, "install", [workers[w] EXCEPT !.pc = "loop", !.current_job_id = None,
                                                    !.job_id = None])
     /\ db' = _update_worker_status(logged, w, TRUE, None, now)

WorkersInit ==
  /\ StoreInit
  /\ workers = [w \in Workers |-> NewWorker("check")]

NextWorkers ==
  \/ TickLive(WORKER_HEARTBEAT_INTERVAL)
  \/ \E s \in IndependentMenu :
       /\ submit_job(s.package_name, s.priority, s.estimated_time, s.dependencies)
       /\ IdsLeft(MaxConcJobs)
       /\ db' /= db
  \/ \E w \in Workers : w_is_running(w)
  \/ \E w \in Workers : w_start(w)
  \/ \E w \in Workers : w_heartbeat(w)
  \/ \E w \in Workers : w_take_job(w)
  \/ \E w \in Workers, exit_code \in {0, 1} : w_run_job(w, exit_code)

SpecWorkers == WorkersInit /\ [][NextWorkers]_vars

\* ------------------------------------------- store managers and their locks
\* A JSONDatabase instance is named after the thread that constructed it.
ServerThreads == {t \in Threads : ProcOf(t) = "server"}
ProcessThreads == {"cli", "worker"}

ThreadStep(t, pc, rec) ==
  /\ threads[t].pc = pc
  /\ threads' = [threads EXCEPT ![t] = rec]
  /\ last' = Label("thread", "-", None, TRUE)
  /\ UNCHANGED <<now, ticks, workers, clients, schedVars, install, callVars>>

\* get_db_manager: `if _db_manager is None`
get_db_manager_check(t) ==
  /\ ThreadStep(t, "new",
       [threads[t] EXCEPT !.pc = IF _db_manager[ProcOf(t)] = NoInstance
                                   THEN "construct" ELSE "return"])
  /\ UNCHANGED <<db, _db_manager, lock>>

\* get_db_manager: `_db_manager = JSONDatabase(db_path)`; the new instance
\* has an RLock of its own and finds the store file in place
get_db_manager_assign(t) ==
  /\ ThreadStep(t, "construct", [threads[t] EXCEPT !.pc = "return"])
  /\ _db_manager' = [_db_manager EXCEPT ![ProcOf(t)] = t]
  /\ lock' = [lock EXCEPT ![t] = Free]
  /\ UNCHANGED db

\* get_db_manager: `return _db_manager`, kept as self.db of the caller
get_db_manager_return(t) ==
  /\ ThreadStep(t, "return",
       [threads[t] EXCEPT !.pc = "idle", !.db = _db_manager[ProcOf(t)]])
  /\ UNCHANGED <<db, _db_manager, lock>>

MenuItem(p) == CHOOSE s \in IndependentMenu : s.package_name = p

\* the store calls a thread makes: the worker thread's mark_job_running
\* (get_job_by_id, then update_job_status), everybody else's submit_job
ThreadOps(t) ==
  IF t = "worker"
    THEN IF threads[t].checked = None
           THEN {[kind |-> "get_job_by_id", package_name |-> "-", job_id |-> id] :
                   id \in JobIds(MaxLockJobs)}
           ELSE {[kind |-> "update_job_status", package_name |-> "-",
                  job_id |-> threads[t].checked]}
    ELSE IF db.next_job_id <= MaxLockJobs
           THEN {[kind |-> "create_job", package_name |-> p, job_id |-> None] : p \in Pkgs}
           ELSE {}

\* _transaction: `with self._lock: data = self._read_data()`
txn_begin(t, op) ==
  /\ threads[t].pc = "idle"
  /\ lock[threads[t].db] = Free
  /\ ThreadStep(t, "idle", [threads[t] EXCEPT !.pc = "txn", !.op = op, !.data = db])
  /\ lock' = [lock EXCEPT ![threads[t].db] = t]
  /\ UNCHANGED <<db, _db_manager>>

\* _transaction: the body on the data read, `self._write_data(data)` unless
\* the body raised, and the release of the lock
txn_commit(t) ==
  LET op == threads[t].op
      data == threads[t].data
      s == MenuItem(op.package_name)
      created == create_job(data, s.package_name, s.priority, s.estimated_time,
                            s.dependencies, now)
      updated == mark_job_running_write(data, op.job_id, now)
      done == [threads[t] EXCEPT !.pc = "idle", !.op = NoOp, !.data = initial_data]
  IN /\ threads[t].pc = "txn"
     /\ lock' = [lock EXCEPT ![threads[t].db] = Free]
     /\ UNCHANGED _db_manager
     /\ CASE op.kind = "create_job" ->
               /\ db' = IF created.ok THEN created.data ELSE db
               /\ ThreadStep(t, "txn",
                    IF created.ok
                      THEN [done EXCEPT !.acked = @ \cup {[op EXCEPT !.job_id = created.id]}]
                      ELSE done)
          [] op.kind = "get_job_by_id" ->
               /\ db' = data
               /\ ThreadStep(t, "txn",
                    [done EXCEPT !.checked = IF job_has_status(data, op.job_id, "pending")
                                               THEN op.job_id ELSE None])
          [] OTHER ->
               /\ db' = updated.data
               /\ ThreadStep(t, "txn",
                    IF updated.ok
                      THEN [done EXCEPT !.checked = None, !.acked = @ \cup {op}]
                      ELSE [done EXCEPT !.checked = None])

ThreadNext(t) ==
  \/ get_db_manager_check(t)
  \/ get_db_manager_assign(t)
  \/ get_db_manager_return(t)
  \/ threads[t].pc = "idle" /\ \E op \in ThreadOps(t) : txn_begin(t, op)
  \/ txn_commit(t)

\* the threads of the server process
NextLock == \E t \in ServerThreads : ThreadNext(t)

SpecLock == Init /\ [][NextLock]_vars

\* a CLI process and the worker process on one store file
NextProcs == \E t \in ProcessThreads : ThreadNext(t)

SpecProcs == Init /\ [][NextProcs]_vars

\* --------------------------------------- one worker, submissions and cleanup
\* The worker runs each half of _execute_job without interruption; jobs are
\* submitted and old terminal jobs are cleaned up while it runs.
QueueWorkerMain(w) ==
  \/ w_is_running(w)
  \/ w_start(w)
  \/ w_take_job(w)
  \/ \E exit_code \in {0, 1} : w_run_job(w, exit_code)

NextQueue ==
  \/ Tick(WORKER_HEARTBEAT_INTERVAL)
  \/ \E s \in SubmitMenu :
       /\ submit_job(s.package_name, s.priority, s.estimated_time, s.dependencies)
       /\ IdsLeft(MaxQueueJobs)
       /\ db' /= db
  \/ cleanup_completed_jobs(0) /\ db' /= db
  \/ QueueWorkerMain("w1")

SpecQueue == ConcInit /\ [][NextQueue]_vars

\* the worker keeps running and every installation ends
SpecQueueFair == SpecQueue /\ WF_vars(QueueWorkerMain("w1"))

\* ------------------------------------------------ a worker that is stopped
\* stop(): running = False, then the worker is recorded as inactive
stop(w) ==
  /\ workers' = [workers EXCEPT ![w].running = FALSE]
  /\ db' = _update_worker_status(db, w, FALSE, None, now)
  /\ last' = Label("stop", "-", None, TRUE)
  /\ UNCHANGED <<now, ticks, clients, schedVars, lockVars, install, callVars>>

\* _signal_handler: SIGTERM or SIGINT reaches the main thread while it is in
\* _main_loop or in _execute_job
w_signal(w) ==
  /\ workers[w].running
  /\ workers[w].pc \in {"loop", "install"}
  /\ stop(w)

\* _main_loop ends at its `while self.running` test and the finally clause
\* of start() calls stop()
w_loop_exit(w) ==
  /\ workers[w].pc = "loop"
  /\ ~workers[w].running
  /\ workers' = [workers EXCEPT ![w].pc = "stopped"]
  /\ db' = _update_worker_status(db, w, FALSE, None, now)
  /\ last' = Label("stop", "-", None, TRUE)
  /\ UNCHANGED <<now, ticks, clients, schedVars, lockVars, install, callVars>>

\* _heartbeat_loop: the `while self.running` test
h_test(w) ==
  /\ workers[w].running
  /\ ~workers[w].beating
  /\ workers[w].heartbeat_at = None
       \/ now >= workers[w].heartbeat_at + WORKER_HEARTBEAT_INTERVAL
  /\ workers' = [workers EXCEPT ![w].beating = TRUE]
  /\ last' = Label("heartbeat_test", "-", None, TRUE)
  /\ UNCHANGED <<db, now, ticks, clients, schedVars, lockVars, install, callVars>>

\* _heartbeat_loop: the beat, then time.sleep(WORKER_HEARTBEAT_INTERVAL)
h_beat(w) ==
  /\ workers[w].beating
  /\ db' = _update_worker_status(db, w, TRUE, workers[w].current_job_id, now)
  /\ workers' = [workers EXCEPT ![w].beating = FALSE, ![w].heartbeat_at = now]
  /\ last' = Label("heartbeat", "-", None, TRUE)
  /\ UNCHANGED <<now, ticks, clients, schedVars, lockVars, install, callVars>>

NextStop ==
  \/ Tick(WORKER_HEARTBEAT_INTERVAL)
  \/ \E s \in IndependentMenu :
       /\ submit_job(s.package_name, s.priority, s.estimated_time, s.dependencies)
       /\ IdsLeft(MaxStopJobs)
       /\ db' /= db
  \/ w_is_running("w1")
  \/ w_start("w1")
  \/ w_take_job("w1")
  \/ \E exit_code \in {0, 1} : w_run_job("w1", exit_code)
  \/ w_signal("w1")
  \/ w_loop_exit("w1")
  \/ h_test("w1")
  \/ h_beat("w1")

SpecStop == ConcInit /\ [][NextStop]_vars

\* ------------------------------------- a worker that dies and its successor
\* the worker process is killed while it installs a job: nothing of it runs
\* any more, the store keeps what it wrote
w_die(w) ==
  /\ workers[w].running
  /\ workers[w].pc = "install"
  /\ workers' = [workers EXCEPT ![w].pc = "dead", ![w].running = FALSE]
  /\ last' = Label("die", "-", workers[w].job_id, TRUE)
  /\ UNCHANGED <<db, now, ticks, clients, schedVars, lockVars, install, callVars>>

\* the heartbeat of the dead worker expires
Expire ==
  /\ \A w \in Workers : ~workers[w].running
  /\ Tick(MAX_WORKER_HEARTBEAT_AGE)

\* start_worker and the main thread of the worker it starts
CrashWorkerMain(w) ==
  \/ w_is_running(w)
  \/ w_start(w)
  \/ w_take_job(w)
  \/ \E exit_code \in {0, 1} : w_run_job(w, exit_code)

NextCrash ==
  \/ Expire
  \/ \E s \in IndependentMenu :
       /\ submit_job(s.package_name, s.priority, s.estimated_time, s.dependencies)
       /\ IdsLeft(MaxCrashJobs)
       /\ db' /= db
  \/ \E id \in JobIds(MaxCrashJobs) : cancel_job(id) /\ db' /= db
  \/ cleanup_completed_jobs(0) /\ db' /= db
  \/ CrashWorkerMain("w1")
  \/ w_die("w1")
  \/ workers["w1"].pc = "dead" /\ CrashWorkerMain("w2")

SpecCrash == WorkersInit /\ [][NextCrash]_vars

\* the successor keeps running and its installations end
SpecCrashFair == SpecCrash /\ WF_vars(workers["w1"].pc = "dead" /\ CrashWorkerMain("w2"))

\* ------------------------------------------------- the scheduler on its own
\* Job lists as _dict_to_job_object hands them to get_next_job: distinct ids
\* in either order, a job with a larger id submitted a minute later.
SchedTemplates ==
  [package_name : Pkgs, priority : {"high", "low"}, estimated_time : {300, 9000},
   dependencies_list : {<<>>, <<"A">>}, status : {"pending", "completed"}]

SchedJobs(f, ascending) ==
  [i \in 1..Len(f) |->
     LET id == IF ascending THEN i ELSE Len(f) + 1 - i
     IN [id |-> id, package_name |-> f[i].package_name, priority |-> f[i].priority,
         estimated_time |-> f[i].estimated_time,
         dependencies_list |-> f[i].dependencies_list,
         submitted_at |-> 60 * (id - 1), status |-> f[i].status]]

\* shortly after the submissions, and more than a day after them
SchedTimes == {60 * MaxSchedJobs, SecondsPerDay + 60 * MaxSchedJobs}

SchedInit ==
  /\ db = initial_data
  /\ ticks = 0
  /\ last = Label("init", "-", None, TRUE)
  /\ workers = [w \in Workers |-> NewWorker("off")]
  /\ clients = [c \in Clients |-> IdleClient]
  /\ _db_manager = [p \in Procs |-> NoInstance]
  /\ lock = [t \in Threads |-> Free]
  /\ threads = [t \in Threads |-> NewThread]
  /\ install = NoProcess
  /\ status_call = NoStatusCall
  /\ analysis = NoAnalysis
  /\ rpc = NoRequest
  /\ now \in SchedTimes
  /\ \E n \in 0..MaxSchedJobs : \E f \in [1..n -> SchedTemplates] : \E ascending \in BOOLEAN :
       sjobs = SchedJobs(f, ascending)
  /\ sinstalled \in SUBSET Pkgs
  /\ sout = NoJob

schedule ==
  /\ last.op = "init"
  /\ sout' = get_next_job(sjobs, sinstalled, now)
  /\ last' = Label("get_next_job", "-", None, sout'.found)
  /\ UNCHANGED <<db, now, ticks, threadVars, sjobs, sinstalled, lockVars, install, callVars>>

NextSched == schedule

SpecSched == SchedInit /\ [][NextSched]_vars

\* ------------------------------------- one worker and its install subprocess
\* a step of the worker's main thread inside _run_spack_spec,
\* _run_spack_install or _run_command_with_streaming
InstallStep(w, pc, rec, inst, data) ==
  /\ workers[w].pc = pc
  /\ workers' = [workers EXCEPT ![w] = rec]
  /\ install' = inst
  /\ db' = data
  /\ last' = Label("worker", "-", None, TRUE)
  /\ UNCHANGED <<now, ticks, clients, schedVars, lockVars, callVars>>

\* _log_message
_log_message(data, job_id, level, message, t) ==
  add_job_log(data, job_id, level, message, t)

\* _run_spack_spec up to the call of _run_command_with_streaming; valid is
\* what config.validate_spack_setup() returns
i_spec_begin(w, valid) ==
  LET job_id == workers[w].job_id
  IN IF ~valid
       THEN InstallStep(w, "install", [workers[w] EXCEPT !.pc = "install_begin"], install,
              _log_message(db, job_id, "WARNING", <<"Spack setup script not found, skipping spec command">>, now))
       ELSE InstallStep(w, "install", [workers[w] EXCEPT !.pc = "popen"],
              [NoProcess EXCEPT !.stage = "spec", !.job_id = job_id,
                                !.timeout_seconds = SpecCommandEstimate * DEFAULT_JOB_TIMEOUT_MULTIPLIER],
              _log_message(db, job_id, "INFO", <<"Getting package specification">>, now))

\* _run_command_with_streaming: subprocess.Popen, start_time; raises is an
\* OSError from Popen, caught by the except clause of the function
i_popen(w, raises) ==
  IF raises
    THEN InstallStep(w, "popen", [workers[w] EXCEPT !.pc = "cmd_done"],
           [install EXCEPT !.outcome = "error", !.ok = FALSE,
                           !.error_msg = "Process execution error"],
           _log_message(db, install.job_id, "ERROR", <<"Process execution error">>, now))
    ELSE InstallStep(w, "popen", [workers[w] EXCEPT !.pc = "timeout_check"],
           [install EXCEPT !.proc = "running", !.start_time = now], db)

\* the timeout check at the top of the loop; graceful is whether the
\* process ends within the 5 seconds after terminate()
i_timeout_check(w, graceful) ==
  IF now - install.start_time > install.timeout_seconds
    THEN InstallStep(w, "timeout_check", [workers[w] EXCEPT !.pc = "cmd_done"],
           [install EXCEPT !.proc = IF @ = "running"
                                      THEN (IF graceful THEN "terminated" ELSE "killed")
                                      ELSE @,
                           !.outcome = "timeout", !.ok = FALSE,
                           !.error_msg = "Installation timed out"],
           _log_message(db, install.job_id, "ERROR", <<"Installation timed out">>, now))
    ELSE /\ graceful
         /\ InstallStep(w, "timeout_check", [workers[w] EXCEPT !.pc = "readline"], install, db)

\* process.stdout.readline(): returns a line when one is in the pipe, the
\* empty string at end of file, and blocks otherwise
i_readline(w) ==
  /\ install.pipe > 0 \/ install.proc /= "running"
  /\ IF install.pipe = 0
       THEN InstallStep(w, "readline", [workers[w] EXCEPT !.pc = "poll"], install, db)
       ELSE InstallStep(w, "readline", [workers[w] EXCEPT !.pc = "poll"],
              [install EXCEPT !.pipe = @ - 1],
              _log_message(db, install.job_id, "INFO", <<"INSTALL">>, now))

RECURSIVE log_remaining(_, _, _, _)
log_remaining(data, job_id, n, t) ==
  IF n = 0 THEN data
  ELSE log_remaining(_log_message(data, job_id, "INFO", <<"INSTALL">>, t), job_id, n - 1, t)

\* process.poll(): a finished process has its remaining output logged and
\* its return code turned into the result; otherwise sleep and loop
i_poll(w) ==
  IF install.proc = "running"
    THEN InstallStep(w, "poll", [workers[w] EXCEPT !.pc = "timeout_check"], install, db)
    ELSE LET d1 == log_remaining(db, install.job_id, install.pipe, now)
             d2 == _log_message(d1, install.job_id, "INFO",
                                <<"Command completed with exit code", install.exit_code>>, now)
         IN IF install.exit_code = 0
              THEN InstallStep(w, "poll", [workers[w] EXCEPT !.pc = "cmd_done"],
                     [install EXCEPT !.pipe = 0, !.outcome = "exit", !.ok = TRUE, !.error_msg = NoMsg],
                     _log_message(d2, install.job_id, "INFO", <<"Installation completed successfully">>, now))
              ELSE InstallStep(w, "poll", [workers[w] EXCEPT !.pc = "cmd_done"],
                     [install EXCEPT !.pipe = 0, !.outcome = "exit", !.ok = FALSE, !.error_msg = "Exit code 1"],
                     _log_message(d2, install.job_id, "ERROR", <<"Command failed with exit code", install.exit_code>>, now))

\* the return of _run_command_with_streaming to _run_spack_spec or, through
\* _run_spack_install, to _execute_job
i_cmd_done(w) ==
  IF install.stage = "spec"
    THEN InstallStep(w, "cmd_done", [workers[w] EXCEPT !.pc = "install_begin"], install,
           IF install.ok
             THEN _log_message(db, install.job_id, "INFO", <<"Package specification retrieved successfully">>, now)
             ELSE _log_message(db, install.job_id, "WARNING", <<"Spec command failed", install.error_msg>>, now))
    ELSE InstallStep(w, "cmd_done",
           [workers[w] EXCEPT !.pc = "complete_read", !.success = install.ok,
                              !.error_message = install.error_msg],
           install, db)

\* _run_spack_install up to the call of _run_command_with_streaming, for a
\* job without a custom command
i_install_begin(w, valid) ==
  LET job_id == workers[w].job_id
      job == get_job_by_id(db, job_id).job
  IN IF ~valid
       THEN InstallStep(w, "install_begin",
              [workers[w] EXCEPT !.pc = "complete_read", !.success = FALSE,
                                 !.error_message = "Spack setup script not found"],
              [NoProcess EXCEPT !.stage = "install", !.job_id = job_id, !.outcome = "error",
                                !.error_msg = "Spack setup script not found"],
              _log_message(db, job_id, "ERROR", <<"Spack setup script not found">>, now))
       ELSE InstallStep(w, "install_begin", [workers[w] EXCEPT !.pc = "popen"],
              [NoProcess EXCEPT !.stage = "install", !.job_id = job_id,
                                !.timeout_seconds = job.estimated_time * DEFAULT_JOB_TIMEOUT_MULTIPLIER],
              _log_message(db, job_id, "INFO", <<"Executing command">>, now))

\* the worker's main thread
InstallWorkerMain(w) ==
  \/ w_is_running(w)
  \/ w_start(w)
  \/ w_poll(w)
  \/ w_select(w)
  \/ w_mark_read(w)
  \/ w_mark_write(w)
  \/ w_set_current(w)
  \/ w_log_start(w)
  \/ \E valid \in BOOLEAN : i_spec_begin(w, valid)
  \/ \E raises \in BOOLEAN : i_popen(w, raises)
  \/ \E graceful \in BOOLEAN : i_timeout_check(w, graceful)
  \/ i_readline(w)
  \/ i_poll(w)
  \/ i_cmd_done(w)
  \/ \E valid \in BOOLEAN : i_install_begin(w, valid)
  \/ w_complete_read(w)
  \/ w_complete_write(w)
  \/ w_final_log(w)
  \/ w_finally(w)

ProcessStep(inst) ==
  /\ install.proc = "running"
  /\ install' = inst
  /\ last' = Label("process", "-", None, TRUE)
  /\ UNCHANGED <<db, now, ticks, threadVars, schedVars, lockVars, callVars>>

\* the subprocess writes a line to the pipe
p_output ==
  /\ install.lines < MaxOutputLines
  /\ ProcessStep([install EXCEPT !.pipe = @ + 1, !.lines = @ + 1])

\* the subprocess exits by itself
p_exit(exit_code) ==
  ProcessStep([install EXCEPT !.proc = "exited", !.exit_code = exit_code])

\* time passes while the subprocess runs
Elapse(d) ==
  /\ install.proc = "running"
  /\ ticks < MaxInstallTicks
  /\ now' = now + d
  /\ ticks' = ticks + 1
  /\ last' = Label("tick", "-", None, TRUE)
  /\ UNCHANGED <<db, threadVars, schedVars, lockVars, install, callVars>>

ElapseMenu == {601}

InstallInit ==
  /\ StoreInit
  /\ workers = [w \in Workers |-> NewWorker(IF w = "w1" THEN "check" ELSE "off")]

NextInstall ==
  \/ \E d \in ElapseMenu : Elapse(d)
  \/ \E s \in IndependentMenu :
       /\ submit_job(s.package_name, s.priority, s.estimated_time, s.dependencies)
       /\ IdsLeft(MaxInstallJobs)
       /\ db' /= db
  \/ InstallWorkerMain("w1")
  \/ p_output
  \/ \E exit_code \in {0, 1} : p_exit(exit_code)

SpecInstall == InstallInit /\ [][NextInstall]_vars

\* the worker's main thread keeps running; the subprocess owes nothing
SpecInstallFair == SpecInstall /\ WF_vars(InstallWorkerMain("w1"))

\* ------------------------------- get_queue_status among concurrent writers
\* get_status_counts
get_status_counts(data) ==
  [st \in Statuses |-> Cardinality({i \in 1..Len(data.jobs) : data.jobs[i].status = st})]

\* estimate_total_time: the sum of estimated_time over the pending jobs
RECURSIVE estimate_total_time(_)
estimate_total_time(jobs) ==
  IF jobs = <<>> THEN 0
  ELSE (IF Head(jobs).status = "pending" THEN Head(jobs).estimated_time ELSE 0)
       + estimate_total_time(Tail(jobs))

\* one store transaction of a get_queue_status call
StatusStep(pc, rec) ==
  /\ status_call.pc \in pc
  /\ status_call' = rec
  /\ last' = Label("status", "-", None, TRUE)
  /\ UNCHANGED <<db, now, ticks, threadVars, schedVars, lockVars, install, analysis, rpc>>

\* get_queue_status: self.db.get_status_counts()
qs_status_counts ==
  StatusStep({"idle", "done"},
    [NoStatusCall EXCEPT !.pc = "worker_status", !.status_counts = get_status_counts(db)])

\* get_queue_status: self.db.get_worker_status()
qs_worker_status ==
  LET worker_status == get_worker_status(db)
  IN StatusStep({"worker_status"},
       [status_call EXCEPT !.pc = "pending",
                           !.worker_active = worker_status.present /\ worker_status.is_active,
                           !.current_job_id = IF worker_status.present
                                                THEN worker_status.current_job_id ELSE None])

\* get_queue_status: self.get_all_jobs(JobStatus.PENDING)
qs_pending ==
  StatusStep({"pending"},
    [status_call EXCEPT !.pc = "completed", !.pending_jobs = get_all_jobs(db, "pending")])

\* get_queue_status: get_completed_package_names, get_next_job,
\* estimate_total_time and the returned dictionary
qs_completed ==
  LET next_job == get_next_job(status_call.pending_jobs, get_completed_package_names(db), now)
  IN StatusStep({"completed"},
       [status_call EXCEPT
          !.pc = "done",
          !.result = [total_pending |-> status_call.status_counts["pending"],
                      queue_length |-> Len(status_call.pending_jobs),
                      estimated_total_time |-> estimate_total_time(status_call.pending_jobs),
                      next_job_id |-> IF next_job.found THEN next_job.job.id ELSE None]])

get_queue_status ==
  \/ qs_status_counts
  \/ qs_worker_status
  \/ qs_pending
  \/ qs_completed

\* the writers are other handler threads and the worker thread; each of
\* their updates is one store transaction
NextStatus ==
  \/ get_queue_status
  \/ \E s \in IndependentMenu :
       /\ submit_job(s.package_name, s.priority, s.estimated_time, s.dependencies)
       /\ IdsLeft(MaxStatusJobs)
       /\ db' /= db
  \/ \E id \in JobIds(MaxStatusJobs) : cancel_job(id) /\ db' /= db
  \/ \E id \in JobIds(MaxStatusJobs) : mark_job_running(id) /\ db' /= db
  \/ \E id \in JobIds(MaxStatusJobs), success \in BOOLEAN :
       /\ mark_job_completed(id, success, IF success THEN NoMsg ELSE "Exit code 1")
       /\ db' /= db

SpecStatus == Init /\ [][NextStatus]_vars

\* detect_dependency_issues, the unsatisfied_dependencies part: for each
\* pending job whose dependencies are not all completed, those that are not
\* the package of a pending job either
RECURSIVE unsatisfied_dependencies(_, _, _)
unsatisfied_dependencies(jobs, pending_jobs, installed_packages) ==
  IF jobs = <<>> THEN <<>>
  ELSE LET job == Head(jobs)
           missing_deps == ToSet(job.dependencies_list) \ installed_packages
           pending_packages == {pending_jobs[i].package_name : i \in 1..Len(pending_jobs)}
           external_deps == missing_deps \ pending_packages
           rest == unsatisfied_dependencies(Tail(jobs), pending_jobs, installed_packages)
       IN IF missing_deps /= {} /\ external_deps /= {}
            THEN <<[job_id |-> job.id, package |-> job.package_name,
                    missing_external_deps |-> external_deps]>> \o rest
            ELSE rest

\* the pending jobs and the completed package names as the two store reads
\* of detect_dependency_issues return them
detect_dependency_issues(jobs) ==
  LET pending_jobs == SelectSeq(jobs, LAMBDA j : j.status = "pending")
      installed_packages == {jobs[i].package_name :
                               i \in {k \in 1..Len(jobs) : jobs[k].status = "completed"}}
  IN unsatisfied_dependencies(pending_jobs, pending_jobs, installed_packages)

\* ------------------------------------ the queue analyses on their own
\* Job lists as _dict_to_job_object hands them over: distinct ids in either
\* order, a job with a larger id submitted a minute later, the call made
\* after the last submission; dependencies may be circular, on the job's own
\* package, or on a package "D" of no job.
OrderPkgs == {"A", "B", "C"}
OrderTemplates ==
  [package_name : OrderPkgs, priority : {"high", "low"}, estimated_time : {300},
   dependencies_list : {<<>>, <<"A">>, <<"B">>, <<"C">>, <<"A", "B">>, <<"D">>},
   status : {"pending", "completed"}]

OrderInit ==
  /\ StoreInit
  /\ workers = [w \in Workers |-> NewWorker("off")]

\* the list of jobs the analyses are called with
order_input ==
  /\ last.op = "init"
  /\ \E n \in 0..MaxOrderJobs : \E f \in [1..n -> OrderTemplates] : \E ascending \in BOOLEAN :
       sjobs' = SchedJobs(f, ascending)
  /\ now' = 60 * MaxOrderJobs
  /\ last' = Label("input", "-", None, TRUE)
  /\ UNCHANGED <<db, ticks, threadVars, sinstalled, sout, lockVars, install, callVars>>

AnalysisStep(op, result) ==
  /\ last.op = "input"
  /\ analysis' = [NoAnalysis EXCEPT !.op = op, ![op] = result]
  /\ last' = Label(op, "-", None, TRUE)
  /\ UNCHANGED <<db, now, ticks, threadVars, schedVars, lockVars, install, status_call, rpc>>

optimize == AnalysisStep("order", optimize_job_order(sjobs, now))

\* reverse is the iteration order of the sets of dependency names
detect_circular(reverse) ==
  AnalysisStep("cycles", detect_circular_dependencies(sjobs, reverse))

detect_issues == AnalysisStep("issues", detect_dependency_issues(sjobs))

NextOrder ==
  \/ order_input
  \/ optimize
  \/ \E reverse \in BOOLEAN : detect_circular(reverse)
  \/ detect_issues

SpecOrder == OrderInit /\ [][NextOrder]_vars

\* ------------------------------------------- the socket server's handler
\* str.lower on the priorities of the requests
Lower(priority) == IF priority = "HIGH" THEN "high" ELSE priority

\* get_job_logs: the entries of the job, sorted by timestamp (stable)
RECURSIVE InsertByTimestamp(_, _)
InsertByTimestamp(sorted, x) ==
  IF sorted = <<>> THEN <<x>>
  ELSE IF Head(sorted).timestamp <= x.timestamp
         THEN <<Head(sorted)>> \o InsertByTimestamp(Tail(sorted), x)
         ELSE <<x>> \o sorted

RECURSIVE SortByTimestamp(_)
SortByTimestamp(logs) ==
  IF logs = <<>> THEN <<>>
  ELSE InsertByTimestamp(SortByTimestamp(SubSeq(logs, 1, Len(logs) - 1)), logs[Len(logs)])

get_job_logs(data, job_id) ==
  SortByTimestamp(SelectSeq(data.logs, LAMBDA l : l.job_id = job_id))

\* get_queue_status when nothing runs between its reads
queue_status(data, t) ==
  LET pending_jobs == get_all_jobs(data, "pending")
      next_job == get_next_job(pending_jobs, get_completed_package_names(data), t)
  IN [total_pending |-> get_status_counts(data)["pending"],
      queue_length |-> Len(pending_jobs),
      estimated_total_time |-> estimate_total_time(pending_jobs),
      next_job_id |-> IF next_job.found THEN next_job.job.id ELSE None]

\* variant of _send_json: the envelope is written twice
_send_json_twice(response) == <<response, response>>

\* _send_json: what goes out on the connection
_send_json(response) == <<response>>

_send_response(data) == _send_json([success |-> TRUE, data |-> data, error |-> NoMsg])

_send_error(message) == _send_json([success |-> FALSE, data |-> "-", error |-> message])

\* the result of a handler: the store after it and what it sent
Handled(data, responses) == [data |-> data, responses |-> responses]

\* params.get('estimated_time', 7200.0)
estimated_time_of(params) ==
  IF params.estimated_time = None THEN DefaultRpcEstimatedTime ELSE params.estimated_time

\* variant of _handle_submit_job: the priority is not validated, an
\* unknown one is stored as medium
_handle_submit_job_any_priority(data, params, t) ==
  IF params.package_name \in {Absent, ""}
    THEN Handled(data, _send_error("Missing package_name parameter"))
    ELSE LET r == create_job(data, params.package_name,
                             IF Lower(params.priority) \in Priorities
                               THEN Lower(params.priority) ELSE "medium",
                             estimated_time_of(params), params.dependencies, t)
         IN IF r.ok THEN Handled(r.data, _send_response(<<"job", r.id>>))
            ELSE Handled(data, _send_error("Error submitting job"))

\* variant of _handle_submit_job: the job is created with the default
\* estimated_time whatever the request says
_handle_submit_job_default_estimate(data, params, t) ==
  LET priority == IF params.priority = Absent THEN "medium" ELSE params.priority
  IN IF params.package_name \in {Absent, ""}
       THEN Handled(data, _send_error("Missing package_name parameter"))
     ELSE IF priority = NotAString
       THEN Handled(data, _send_error("Error submitting job"))
     ELSE IF Lower(priority) \notin Priorities
       THEN Handled(data, _send_error("Invalid priority"))
     ELSE LET r == create_job(data, params.package_name, Lower(priority),
                              DefaultRpcEstimatedTime, params.dependencies, t)
          IN IF r.ok THEN Handled(r.data, _send_response(<<"job", r.id>>))
             ELSE Handled(data, _send_error("Error submitting job"))

_handle_submit_job(data, params, t) ==
  LET priority == IF params.priority = Absent THEN "medium" ELSE params.priority
  IN IF params.package_name \in {Absent, ""}
       THEN Handled(data, _send_error("Missing package_name parameter"))
     ELSE IF priority = NotAString
       THEN Handled(data, _send_error("Error submitting job"))
     ELSE IF Lower(priority) \notin Priorities
       THEN Handled(data, _send_error("Invalid priority"))
     ELSE LET r == create_job(data, params.package_name, Lower(priority),
                              estimated_time_of(params), params.dependencies, t)
          IN IF r.ok THEN Handled(r.data, _send_response(<<"job", r.id>>))
             ELSE Handled(data, _send_error("Error submitting job"))

_handle_get_status(data, t) ==
  Handled(data, _send_response(<<"status", queue_status(data, t)>>))

\* JobStatus(filter_status) raises ValueError for an unknown status
_handle_get_jobs(data, params) ==
  IF params.status = Absent
    THEN Handled(data, _send_response(<<"jobs", get_all_jobs(data, "all")>>))
  ELSE IF params.status \notin Statuses
    THEN Handled(data, _send_error("Error getting jobs"))
  ELSE Handled(data, _send_response(<<"jobs", get_all_jobs(data, params.status)>>))

\* `if not job_id`: a missing job_id and the id 0
_handle_cancel_job(data, params, t) ==
  IF params.job_id = None \/ params.job_id = 0
    THEN Handled(data, _send_error("Missing job_id parameter"))
  ELSE IF job_has_status(data, params.job_id, "pending")
    THEN LET r == cancel_job_write(data, params.job_id, t)
         IN Handled(r.data, _send_response(<<"cancelled", r.ok>>))
  ELSE Handled(data, _send_response(<<"cancelled", FALSE>>))

_handle_get_job_logs(data, params) ==
  IF params.job_id = None \/ params.job_id = 0
    THEN Handled(data, _send_error("Missing job_id parameter"))
    ELSE Handled(data, _send_response(<<"logs", get_job_logs(data, params.job_id)>>))

\* handle: the request has been read to the end of the stream
handle(data, request, t) ==
  CASE request.kind = "empty" -> Handled(data, _send_error("No data received"))
    [] request.kind = "malformed" -> Handled(data, _send_error("Invalid JSON"))
    [] request.kind = "not_object" -> Handled(data, _send_error("Server error"))
    [] request.action = "submit_job" -> _handle_submit_job(data, request, t)
    [] request.action = "get_status" -> _handle_get_status(data, t)
    [] request.action = "get_jobs" -> _handle_get_jobs(data, request)
    [] request.action = "cancel_job" -> _handle_cancel_job(data, request, t)
    [] request.action = "get_job_logs" -> _handle_get_job_logs(data, request)
    [] OTHER -> Handled(data, _send_error("Unknown action"))

\* SpackInstallerClient.submit_job: the request it sends
client_submit_job(package_name, priority, dependencies, estimated_time) ==
  [NoParams EXCEPT !.kind = "object", !.action = "submit_job",
                   !.package_name = package_name, !.priority = priority,
                   !.dependencies = dependencies, !.estimated_time = estimated_time]

\* SpackInstallerClient.get_jobs: the request it sends; an empty filter is
\* left out
client_get_jobs(status_filter) ==
  [NoParams EXCEPT !.kind = "object", !.action = "get_jobs",
                   !.status = IF status_filter = "" THEN Absent ELSE status_filter]

\* the submissions made through the client
ClientSubmits ==
  {client_submit_job(p, prio, deps, 300) :
     p \in {"A", "B"}, prio \in {"medium", "low"}, deps \in {<<"C">>, <<"C", "A">>}}

\* the requests: no bytes, bytes that are no JSON, JSON that is no object,
\* and objects with the actions and parameters the handlers distinguish
RequestMenu ==
  {[NoParams EXCEPT !.kind = k] : k \in {"empty", "malformed", "not_object"}}
  \cup {[NoParams EXCEPT !.kind = "object", !.action = a] : a \in {Absent, "bogus", "get_status"}}
  \cup {[NoParams EXCEPT !.kind = "object", !.action = "submit_job",
                         !.package_name = p, !.priority = prio] :
          p \in {"A", "B", "", Absent},
          prio \in {"high", "HIGH", "urgent", NotAString, Absent}}
  \cup {client_get_jobs(st) : st \in {"", "pending", "bogus"}}
  \cup {[NoParams EXCEPT !.kind = "object", !.action = a, !.job_id = id] :
          a \in {"cancel_job", "get_job_logs"},
          id \in {None} \cup (0..(MaxRpcJobs + 1))}

\* one connection: accepted, read to the end of the stream, handled, closed
rpc_request(request) ==
  /\ LET r == handle(db, request, now)
     IN /\ db' = r.data
        /\ rpc' = [pc |-> "closed", request |-> request, responses |-> r.responses]
  /\ last' = Label("rpc", "-", None, TRUE)
  /\ UNCHANGED <<now, ticks, threadVars, schedVars, lockVars, install, status_call, analysis>>

NextRpc ==
  \/ \E request \in RequestMenu :
       /\ rpc_request(request)
       /\ IdsLeft(MaxRpcJobs) \/ db'.next_job_id = db.next_job_id
  \/ \E id \in JobIds(MaxRpcJobs) : mark_job_running(id) /\ db' /= db
  \/ \E id \in JobIds(MaxRpcJobs), success \in BOOLEAN :
       /\ mark_job_completed(id, success, IF success THEN NoMsg ELSE "Exit code 1")
       /\ db' /= db

SpecRpc == Init /\ [][NextRpc]_vars

\* the requests of a client that submits jobs and lists them, while the
\* jobs are run
NextClient ==
  \/ \E request \in ClientSubmits \cup {client_get_jobs(st) : st \in {"", "pending"}} :
       /\ rpc_request(request)
       /\ IdsLeft(MaxRpcJobs) \/ db'.next_job_id = db.next_job_id
  \/ \E id \in JobIds(MaxRpcJobs) : mark_job_running(id) /\ db' /= db
  \/ \E id \in JobIds(MaxRpcJobs), success \in BOOLEAN :
       /\ mark_job_completed(id, success, IF success THEN NoMsg ELSE "Exit code 1")
       /\ db' /= db

SpecClient == Init /\ [][NextClient]_vars

\* --------------------------------------------- the next job and the order
get_optimized_queue_order(data, t) ==
  optimize_job_order(get_all_jobs(data, "pending"), t)

\* get_next_job_to_run and get_optimized_queue_order called on one state of
\* the store
plan ==
  /\ sout' = get_next_job_to_run(db, now)
  /\ analysis' = [NoAnalysis EXCEPT !.op = "order", !.order = get_optimized_queue_order(db, now)]
  /\ last' = Label("plan", "-", None, TRUE)
  /\ UNCHANGED <<db, now, ticks, threadVars, sjobs, sinstalled, lockVars, install, status_call, rpc>>

PlanMenu ==
  {[package_name |-> "A", priority |-> "high", estimated_time |-> 300, dependencies |-> <<>>],
   [package_name |-> "B", priority |-> "high", estimated_time |-> 300, dependencies |-> <<"A">>],
   [package_name |-> "C", priority |-> "low", estimated_time |-> 300, dependencies |-> <<>>]}

NextPlan ==
  \/ \E s \in PlanMenu :
       /\ submit_job(s.package_name, s.priority, s.estimated_time, s.dependencies)
       /\ IdsLeft(MaxPlanJobs)
       /\ db' /= db
  \/ \E id \in JobIds(MaxPlanJobs) : mark_job_running(id) /\ db' /= db
  \/ \E id \in JobIds(MaxPlanJobs), success \in BOOLEAN :
       /\ mark_job_completed(id, success, IF success THEN NoMsg ELSE "Exit code 1")
       /\ db' /= db
  \/ plan

SpecPlan == OrderInit /\ [][NextPlan]_vars

\* ------------------------------------------------------------------ claims
ActiveJobs(data, p) ==
  {i \in 1..Len(data.jobs) : /\ data.jobs[i].package_name = p
                             /\ data.jobs[i].status \in {"pending", "running"}}

\* C2: each package_name has at most one job that is pending or running.
C2_OneActiveJobPerPackage ==
  \A p \in Pkgs : Cardinality(ActiveJobs(db, p)) <= 1

\* C3: a submit for a package that has a pending or running job is rejected,
\* and the rejection leaves jobs, logs and next_job_id as they were.
C3_DuplicateSubmitRejected ==
  [][(last'.op = "submit" /\ ActiveJobs(db, last'.pkg) /= {})
       => /\ ~last'.ok
          /\ db'.jobs = db.jobs
          /\ db'.logs = db.logs
          /\ db'.next_job_id = db.next_job_id]_vars

C3_Witness ==
  /\ last.op = "submit"
  /\ ~last.ok
  /\ \E i \in ActiveJobs(db, last.pkg) : db.jobs[i].status = "running"

LegalTransitions ==
  {<<"pending", "running">>, <<"running", "completed">>,
   <<"running", "failed">>, <<"pending", "cancelled">>}

\* C1: under any interleaving of the client calls with the worker, every
\* change of a job's status is pending->running, running->completed,
\* running->failed or pending->cancelled.
C1_LegalStatusChanges ==
  [][\A i \in 1..Len(db.jobs) :
       LET k == FindJob(db'.jobs, db.jobs[i].id)
       IN (k /= 0 /\ db'.jobs[k].status /= db.jobs[i].status)
            => <<db.jobs[i].status, db'.jobs[k].status>> \in LegalTransitions]_vars

\* what a call that has returned to its caller leaves in the store
Lost(data, a) ==
  IF a.kind = "create_job"
    THEN ~\E i \in 1..Len(data.jobs) : /\ data.jobs[i].id = a.job_id
                                       /\ data.jobs[i].package_name = a.package_name
    ELSE ~job_has_status(data, a.job_id, "running")

\* C4: store operations of the threads of the server process are serialized
\* by one lock, so no update that has returned is lost: a submitted job is
\* in the store, a job marked running is running.
C4_NoLostUpdateInProcess ==
  \A t \in ServerThreads : \A a \in threads[t].acked : ~Lost(db, a)

\* C5: between a CLI process and the worker process, a job whose id
\* submit_job has returned stays in the store and a status written by
\* mark_job_running is not overwritten by an older snapshot.
C5_NoLostUpdateAcrossProcesses ==
  \A t \in ProcessThreads : \A a \in threads[t].acked : ~Lost(db, a)

RunningJobs(data) == {i \in 1..Len(data.jobs) : data.jobs[i].status = "running"}

\* C6: at most one job has status running.
C6_AtMostOneRunningJob == Cardinality(RunningJobs(db)) <= 1

\* C7: under any interleaving of two worker start-ups, at most one worker
\* executes its main loop while the stored heartbeat is fresher than the
\* max age.
C7_OneLiveWorker ==
  is_running(db, now) => Cardinality({w \in Workers : workers[w].running}) <= 1

\* C8: when a job becomes running, every package of its dependency list is
\* the package_name of a completed job of the store at that moment.
C8_DependenciesCompletedAtStart ==
  [][\A k \in 1..Len(db'.jobs) :
       (db'.jobs[k].status = "running" /\ ~job_has_status(db, db'.jobs[k].id, "running"))
         => ToSet(db'.jobs[k].dependencies_list) \subseteq get_completed_package_names(db')]_vars

\* the positions of the ready jobs of the scheduler's input, and the score
\* the scheduler gives the job at a position
SchedPending == SelectSeq(sjobs, LAMBDA j : j.status = "pending")

SchedReady ==
  {i \in 1..Len(sjobs) : /\ sjobs[i].status = "pending"
                         /\ ToSet(sjobs[i].dependencies_list) \subseteq sinstalled}

SchedScore(i) ==
  calculate_job_score(sjobs[i], _build_dependency_graph(SchedPending), now)

\* C9: get_next_job returns none exactly when no pending job has its
\* dependencies among the installed packages; otherwise it returns a ready
\* pending job whose (score, id) is least among the ready jobs, equal scores
\* going to the smaller id.
C9_NextJobIsLeastReady ==
  last.op = "get_next_job" =>
    IF SchedReady = {}
      THEN ~sout.found
      ELSE /\ sout.found
           /\ \E i \in SchedReady :
                /\ sout.job = sjobs[i]
                /\ \A k \in SchedReady \ {i} :
                     \/ SchedScore(i) < SchedScore(k)
                     \/ SchedScore(i) = SchedScore(k) /\ sjobs[i].id < sjobs[k].id

\* two ready jobs of equal score, the one of the larger id first in the list
C9_Witness ==
  /\ last.op = "get_next_job"
  /\ sout.found
  /\ \E i, k \in SchedReady :
       /\ i < k
       /\ sjobs[i].id > sjobs[k].id
       /\ SchedScore(i) = SchedScore(k)
       /\ sout.job = sjobs[k]

\* C10: a retry of a failed job succeeds and raises its retry_count by one
\* while the count is below max_retries (= DEFAULT_MAX_RETRIES, counted from
\* 0), and is refused, leaving jobs and next_job_id unchanged, from then on.
C10_RetryStep ==
  (last'.op = "retry" /\ job_has_status(db, last'.id, "failed"))
    => LET i == FindJob(db.jobs, last'.id)
       IN IF db.jobs[i].retry_count < db.jobs[i].max_retries
            THEN /\ last'.ok
                 /\ db'.jobs[i].retry_count = db.jobs[i].retry_count + 1
            ELSE /\ ~last'.ok
                 /\ db'.jobs = db.jobs
                 /\ db'.next_job_id = db.next_job_id

C10_RetryCounts ==
  \A i \in 1..Len(db.jobs) :
    /\ db.jobs[i].max_retries = DEFAULT_MAX_RETRIES
    /\ db.jobs[i].retry_count \in 0..db.jobs[i].max_retries
    /\ (~db.jobs[i].is_retry /\ db.jobs[i].status /= "failed") => db.jobs[i].retry_count = 0

C10_RetriesUpToMax == [][C10_RetryStep]_vars /\ []C10_RetryCounts

C10_Witness ==
  /\ last.op = "retry"
  /\ ~last.ok
  /\ job_has_status(db, last.id, "failed")
  /\ ~db.jobs[FindJob(db.jobs, last.id)].is_retry
  /\ db.jobs[FindJob(db.jobs, last.id)].retry_count = DEFAULT_MAX_RETRIES

\* C11: a successful retry leaves the original job failed with its
\* error_message, raises its retry_count by one and stamps its last_retry_at,
\* appends exactly one job, pending, is_retry, with an id no job had, and
\* modifies no other job.
C11_RetryFrame ==
  [][(last'.op = "retry" /\ last'.ok) =>
       LET i == FindJob(db.jobs, last'.id)
           n == Len(db.jobs)
       IN /\ i /= 0
          /\ db.jobs[i].status = "failed"
          /\ Len(db'.jobs) = n + 1
          /\ db'.jobs[i] = [db.jobs[i] EXCEPT !.retry_count = @ + 1,
                                              !.last_retry_at = now,
                                              !.retry_fields = TRUE]
          /\ \A k \in 1..n : k /= i => db'.jobs[k] = db.jobs[k]
          /\ db'.jobs[n + 1].status = "pending"
          /\ db'.jobs[n + 1].is_retry
          /\ \A k \in 1..n : db.jobs[k].id /= db'.jobs[n + 1].id]_vars

\* a retry that succeeded while a third job was in the store
C11_Witness ==
  /\ last.op = "retry"
  /\ last.ok
  /\ db.jobs[FindJob(db.jobs, last.id)].status = "failed"
  /\ db.jobs[FindJob(db.jobs, last.id)].error_message = "Exit code 1"
  /\ Len(db.jobs) >= 3
  /\ db.jobs[Len(db.jobs)].is_retry

\* C12: a retry of an id that no job has, or of a job that is pending,
\* running, completed or cancelled, is refused, creates no job, consumes no
\* id and changes no job.
C12_RetryNotEligible ==
  [][(last'.op = "retry" /\ ~job_has_status(db, last'.id, "failed")) =>
       /\ ~last'.ok
       /\ db'.jobs = db.jobs
       /\ db'.next_job_id = db.next_job_id]_vars

\* a refused retry of a cancelled job, with an id still to hand out
C12_Witness ==
  /\ last.op = "retry"
  /\ ~last.ok
  /\ job_has_status(db, last.id, "cancelled")
  /\ IdsLeft(MaxJobs)

\* C13: every retry job is created with retry_delay = base delay x backoff
\* factor to the power (its retry_count - 1), whether it retries a root job
\* or another retry job.
C13_RetryDelayBackoff ==
  [][(last'.op = "retry" /\ last'.ok) =>
       LET job == db'.jobs[Len(db'.jobs)]
       IN job.retry_delay =
            DEFAULT_RETRY_DELAY * Pow(RETRY_BACKOFF_FACTOR, job.retry_count - 1)]_vars

\* C14: a retry job's original_job_id is the id of the root job of its
\* chain: the retried job's id when that job is a root, the retried job's
\* own original_job_id when it is itself a retry.
C14_OriginalJobIsRoot ==
  [][(last'.op = "retry" /\ last'.ok) =>
       LET o == db.jobs[FindJob(db.jobs, last'.id)]
           job == db'.jobs[Len(db'.jobs)]
       IN job.original_job_id = IF o.is_retry THEN o.original_job_id ELSE o.id]_vars

JobIdsOf(data) == {data.jobs[i].id : i \in 1..Len(data.jobs)}

\* a job that appears in a step gets an id at or above the counter, and the
\* counter never goes back
C15_IdStep ==
  /\ db'.next_job_id >= db.next_job_id
  /\ \A id \in JobIdsOf(db') \ JobIdsOf(db) :
       id >= db.next_job_id /\ id < db'.next_job_id

\* the jobs of the store, in creation order, have strictly increasing ids
\* below the counter
C15_IdsBelowCounter ==
  /\ \A i \in 1..Len(db.jobs) : db.jobs[i].id < db.next_job_id
  /\ \A i, k \in 1..Len(db.jobs) : i < k => db.jobs[i].id < db.jobs[k].id

C16_LogIdsIncrease ==
  \A i, k \in 1..Len(db.logs) : i < k => db.logs[i].id < db.logs[k].id
\* C19: in every reachable state each failed job has a non-null
\* error_message and at least one ERROR-level log entry carrying its id.
C19_FailedJobRecorded ==
  \A i \in 1..Len(db.jobs) :
    db.jobs[i].status = "failed" =>
      /\ db.jobs[i].error_message /= NoMsg
      /\ \E k \in 1..Len(db.logs) :
           db.logs[k].job_id = db.jobs[i].id /\ db.logs[k].level = "ERROR"

\* a job failed by mark_job_completed survives a cleanup that removed another job
C19_Witness ==
  /\ last.op = "cleanup"
  /\ Len(db.jobs) = 1
  /\ db.jobs[1].status = "failed"
  /\ db.jobs[1].id = 2

\* C20: cancel_job with no concurrent operation returns true and sets the
\* status to cancelled iff the job exists and is pending; otherwise it returns
\* false and leaves every job record and the log list unchanged.
C20_CancelOnlyPending ==
  [][last'.op = "cancel" =>
       LET id == last'.id
           i == FindJob(db.jobs, id)
       IN IF job_has_status(db, id, "pending")
            THEN /\ last'.ok
                 /\ db'.jobs[i].status = "cancelled"
            ELSE /\ ~last'.ok
                 /\ db'.jobs = db.jobs
                 /\ db'.logs = db.logs]_vars

\* a cancel refused for a running job after another job was cancelled
C20_Witness ==
  /\ last.op = "cancel"
  /\ ~last.ok
  /\ job_has_status(db, last.id, "running")
  /\ \E i \in 1..Len(db.jobs) : db.jobs[i].status = "cancelled"

\* the install command of a job has run past its timeout and has not exited
Overdue ==
  /\ install.stage = "install"
  /\ install.proc = "running"
  /\ now - install.start_time > install.timeout_seconds

\* the worker ended the subprocess and the job is failed as timed out
TimedOut ==
  /\ install.stage = "install"
  /\ install.proc \in {"terminated", "killed"}
  /\ LET r == get_job_by_id(db, install.job_id)
     IN /\ r.found
        /\ r.job.status = "failed"
        /\ r.job.error_message = "Installation timed out"

\* C17: an install subprocess that has not exited within
\* estimated_time * DEFAULT_JOB_TIMEOUT_MULTIPLIER of its start is eventually
\* terminated by the worker, the job eventually becomes failed with a
\* timed-out error message and the subprocess is no longer running, also
\* when the subprocess prints nothing (a subprocess that exits by itself
\* after the limit needs no termination).
C17_TimeoutEnforced == Overdue ~> (install.proc = "exited" \/ TimedOut)

\* C18: when the worker executes a job it marked running, the job ends
\* completed iff the install command exited with code 0 before any timeout;
\* a nonzero exit code, a timeout, or an exception raised during execution
\* each end the job as failed, and the worker loop polls again afterwards.
C18_JobOutcome ==
  [][/\ (workers["w1"].pc = "complete_write" /\ workers'["w1"].pc = "final_log") =>
          LET job == get_job_by_id(db', install.job_id).job
              exited_zero == /\ install.stage = "install"
                             /\ install.outcome = "exit"
                             /\ install.proc = "exited"
                             /\ install.exit_code = 0
          IN /\ install.job_id = workers["w1"].job_id
             /\ job.status = IF exited_zero THEN "completed" ELSE "failed"
             /\ install.outcome \in {"exit", "timeout", "error"}
     /\ (workers["w1"].pc = "finally" /\ workers'["w1"].pc /= "finally") =>
          /\ workers'["w1"].pc = "loop"
          /\ workers'["w1"].running]_vars

\* the worker is polling again after a job whose install command was ended
\* by the timeout
C18_Witness ==
  /\ workers["w1"].pc = "loop"
  /\ workers["w1"].running
  /\ install.stage = "install"
  /\ install.outcome = "timeout"
  /\ job_has_status(db, install.job_id, "failed")

\* C21: cancelling a pending job J changes only J's record (status and
\* completed_at) and appends one log entry; every other job keeps its status
\* and fields, and a job that depends on J's package stays pending and is
\* not returned by get_next_job_to_run unless that package is completed by
\* another job.
C21_CancelFrame ==
  [][(last'.op = "cancel" /\ last'.ok) =>
       LET i == FindJob(db.jobs, last'.id)
           pkg == db.jobs[i].package_name
           next_job == get_next_job_to_run(db', now)
       IN /\ db'.jobs = [db.jobs EXCEPT ![i] = [@ EXCEPT !.status = "cancelled",
                                                          !.completed_at = now]]
          /\ Len(db'.logs) = Len(db.logs) + 1
          /\ SubSeq(db'.logs, 1, Len(db.logs)) = db.logs
          /\ db'.logs[Len(db'.logs)].job_id = last'.id
          /\ db'.next_job_id = db.next_job_id
          /\ db'.worker_status = db.worker_status
          /\ (next_job.found /\ pkg \in ToSet(next_job.job.dependencies_list)) =>
                pkg \in get_completed_package_names(db')]_vars

\* a pending job was cancelled while a pending job that depends on its
\* package is queued
C21_Witness ==
  /\ last.op = "cancel"
  /\ last.ok
  /\ \E i, k \in 1..Len(db.jobs) :
       /\ db.jobs[i].id = last.id
       /\ db.jobs[i].status = "cancelled"
       /\ db.jobs[k].status = "pending"
       /\ db.jobs[i].package_name \in ToSet(db.jobs[k].dependencies_list)

\* C22: every get_queue_status result is consistent with a single store
\* state, also while submit, cancel and worker transitions run concurrently:
\* total_pending equals queue_length, the number of pending jobs, and
\* estimated_total_time is the sum of estimated_time over those jobs.
C22_StatusConsistent ==
  status_call.pc = "done" =>
    /\ status_call.result.queue_length = status_call.result.total_pending
    /\ Len(status_call.pending_jobs) = status_call.result.total_pending
    /\ estimate_total_time(status_call.pending_jobs) = status_call.result.estimated_total_time

\* the pending jobs of the list the analyses were called with
OrderPending == SelectSeq(sjobs, LAMBDA j : j.status = "pending")

\* C23: optimize_job_order terminates for every input and returns a
\* permutation of the pending jobs of its input: each pending job appears
\* exactly once and no other job appears, also when dependencies are circular
\* or refer to packages outside the set.
C23_OrderIsPermutation ==
  analysis.op = "order" =>
    /\ Len(analysis.order) = Len(OrderPending)
    /\ \A i \in 1..Len(OrderPending) :
         Cardinality({k \in 1..Len(analysis.order) : analysis.order[k] = OrderPending[i]}) = 1
    /\ \A k \in 1..Len(analysis.order) : analysis.order[k].status = "pending"

\* three pending jobs ordered although two depend on each other and the
\* third on a package of no job
C23_Witness ==
  /\ analysis.op = "order"
  /\ Len(analysis.order) = 3
  /\ \E i, k, m \in 1..3 :
       /\ sjobs[i].package_name = "A" /\ sjobs[i].dependencies_list = <<"B">>
       /\ sjobs[k].package_name = "B" /\ sjobs[k].dependencies_list = <<"A">>
       /\ sjobs[m].package_name = "C" /\ sjobs[m].dependencies_list = <<"D">>

\* the jobs are all pending, of distinct packages, every dependency is the
\* package of one of them, and the dependency graph has no cycle
ClosedAcyclic(jobs) ==
  LET pkgs == {jobs[i].package_name : i \in 1..Len(jobs)}
  IN /\ \A i \in 1..Len(jobs) : jobs[i].status = "pending"
     /\ \A i, k \in 1..Len(jobs) : jobs[i].package_name = jobs[k].package_name => i = k
     /\ \A i \in 1..Len(jobs) : ToSet(jobs[i].dependencies_list) \subseteq pkgs
     /\ \E rank \in [pkgs -> 1..Len(jobs)] :
          \A i \in 1..Len(jobs) : \A d \in ToSet(jobs[i].dependencies_list) :
            rank[d] < rank[jobs[i].package_name]

\* C24: for pending jobs with distinct packages whose dependency graph is
\* acyclic and closed, optimize_job_order places each job after all jobs for
\* its dependencies, whatever the priorities and ages are.
C24_OrderRespectsDependencies ==
  (analysis.op = "order" /\ ClosedAcyclic(sjobs)) =>
    \A i, k \in 1..Len(analysis.order) :
      analysis.order[k].package_name \in ToSet(analysis.order[i].dependencies_list) => k < i

\* A without dependencies and of low priority, B on A, C of high priority on
\* B: the order is A, B, C
C24_Witness ==
  /\ analysis.op = "order"
  /\ ClosedAcyclic(sjobs)
  /\ Len(analysis.order) = 3
  /\ analysis.order[1].package_name = "A" /\ analysis.order[1].priority = "low"
  /\ analysis.order[1].dependencies_list = <<>>
  /\ analysis.order[2].package_name = "B" /\ analysis.order[2].dependencies_list = <<"A">>
  /\ analysis.order[3].package_name = "C" /\ analysis.order[3].priority = "high"
  /\ analysis.order[3].dependencies_list = <<"B">>

\* the package -> dependency edges of the list the analyses were called with
Edges == {e \in OrderPkgs \X ToSet(PkgOrder) :
            \E i \in 1..Len(sjobs) : /\ sjobs[i].package_name = e[1]
                                     /\ e[2] \in ToSet(sjobs[i].dependencies_list)}

\* the pairs joined by a path of at most n + 1 edges
RECURSIVE Paths(_)
Paths(n) ==
  IF n = 0 THEN Edges
  ELSE LET R == Paths(n - 1)
       IN R \cup {p \in OrderPkgs \X ToSet(PkgOrder) :
                    \E b \in ToSet(PkgOrder) : <<p[1], b>> \in R /\ <<b, p[2]>> \in Edges}

Reach == Paths(Len(PkgOrder))

\* C25: detect_circular_dependencies returns a non-empty list iff the
\* package -> dependencies graph of the given jobs has a directed cycle (a
\* self-dependency included); every returned pair is an edge of the graph
\* that lies on a cycle, and for A -> [B], B -> [A] exactly one pair, (A, B)
\* or (B, A), is returned.
C25_CyclesDetected ==
  analysis.op = "cycles" =>
    /\ (analysis.cycles /= <<>>) <=> (\E p \in OrderPkgs : <<p, p>> \in Reach)
    /\ \A k \in 1..Len(analysis.cycles) :
         /\ analysis.cycles[k] \in Edges
         /\ <<analysis.cycles[k][2], analysis.cycles[k][1]>> \in Reach
              \/ analysis.cycles[k][1] = analysis.cycles[k][2]
    /\ (Edges = {<<"A", "B">>, <<"B", "A">>}) =>
         /\ Len(analysis.cycles) = 1
         /\ analysis.cycles[1] \in Edges

\* the dependencies of the i-th job that are neither the package of a
\* completed job nor the package of another pending job
ExternalDeps(i) ==
  {d \in ToSet(sjobs[i].dependencies_list) :
     /\ ~\E k \in 1..Len(sjobs) : sjobs[k].status = "completed" /\ sjobs[k].package_name = d
     /\ ~\E k \in 1..Len(sjobs) : /\ k /= i
                                   /\ sjobs[k].status = "pending"
                                   /\ sjobs[k].package_name = d}

\* C26: detect_dependency_issues reports a pending job as having unsatisfied
\* external dependencies iff at least one of its dependencies is neither the
\* package of a completed job nor the package of another pending job, and
\* the reported missing set is exactly those dependencies.
C26_ExternalDepsReported ==
  analysis.op = "issues" =>
    /\ \A i \in 1..Len(sjobs) :
         (sjobs[i].status = "pending" /\ ExternalDeps(i) /= {}) =>
           \E k \in 1..Len(analysis.issues) :
             /\ analysis.issues[k].job_id = sjobs[i].id
             /\ analysis.issues[k].missing_external_deps = ExternalDeps(i)
    /\ \A k \in 1..Len(analysis.issues) :
         \E i \in 1..Len(sjobs) :
           /\ sjobs[i].id = analysis.issues[k].job_id
           /\ sjobs[i].status = "pending"
           /\ ExternalDeps(i) /= {}

\* C27: cleanup_old_jobs(keep_days) removes exactly the completed, failed or
\* cancelled jobs whose completed_at is older than the cutoff and returns
\* their number; it never removes a pending or running job, removes every
\* log entry of a removed job, keeps every log entry of a kept job, and
\* leaves next_job_id and worker_status unchanged.
C27_CleanupFrame ==
  [][last'.op = "cleanup" =>
       LET cutoff == now - last'.keep_days * SecondsPerDay
           old(j) == /\ j.status \in Terminal
                     /\ j.completed_at /= None
                     /\ j.completed_at < cutoff
           removed == {i \in 1..Len(db.jobs) : old(db.jobs[i])}
           kept_ids == {db.jobs[i].id : i \in (1..Len(db.jobs)) \ removed}
           kept_logs == {k \in 1..Len(db.logs) : db.logs[k].job_id \in kept_ids}
       IN /\ last'.deleted_count = Cardinality(removed)
          /\ Len(db'.jobs) = Len(db.jobs) - Cardinality(removed)
          /\ \A i \in 1..Len(db.jobs) :
               (i \notin removed) <=> (\E k \in 1..Len(db'.jobs) : db'.jobs[k] = db.jobs[i])
          /\ \A i \in 1..Len(db.jobs) :
               db.jobs[i].status \in {"pending", "running"} =>
                 \E k \in 1..Len(db'.jobs) : db'.jobs[k] = db.jobs[i]
          /\ Len(db'.logs) = Cardinality(kept_logs)
          /\ \A k \in 1..Len(db.logs) :
               (k \in kept_logs) <=> (\E m \in 1..Len(db'.logs) : db'.logs[m] = db.logs[k])
          /\ db'.next_job_id = db.next_job_id
          /\ db'.worker_status = db.worker_status]_vars

\* a cleanup removed one old job and its log entries and kept a newer job
\* with its log entries
C27_Witness ==
  /\ last.op = "cleanup"
  /\ last.deleted_count = 1
  /\ Len(db.jobs) = 1
  /\ db.jobs[1].id = 2
  /\ db.jobs[1].status \in Terminal
  /\ Len(db.logs) >= 2
  /\ \A k \in 1..Len(db.logs) : db.logs[k].job_id = 2

\* the request handled by this step is a submit_job
SubmitHandled ==
  /\ last'.op = "rpc"
  /\ rpc'.request.kind = "object"
  /\ rpc'.request.action = "submit_job"

\* this step answered with one error response and left the store's jobs,
\* logs and next_job_id as they were
RejectedUnchanged ==
  /\ Len(rpc'.responses) = 1
  /\ ~rpc'.responses[1].success
  /\ rpc'.responses[1].error /= NoMsg
  /\ db'.jobs = db.jobs
  /\ db'.logs = db.logs
  /\ db'.next_job_id = db.next_job_id

\* C28, as stated: a submit_job request with a missing or empty
\* package_name, or with a priority outside {high, medium, low}, is answered
\* with an error response and leaves the store's jobs, logs and next_job_id
\* unchanged.
C28_InvalidSubmitRejected_Literal ==
  [][(/\ SubmitHandled
      /\ \/ rpc'.request.package_name \in {Absent, ""}
         \/ /\ rpc'.request.priority /= Absent
            /\ rpc'.request.priority \notin Priorities) => RejectedUnchanged]_vars

\* C28, amended: a submit_job request with a missing or empty package_name,
\* or with a priority whose lower-cased form is outside {high, medium, low},
\* is answered with an error response and leaves the store's jobs, logs and
\* next_job_id unchanged.
C28_InvalidSubmitRejected ==
  [][(/\ SubmitHandled
      /\ \/ rpc'.request.package_name \in {Absent, ""}
         \/ /\ rpc'.request.priority /= Absent
            /\ \/ rpc'.request.priority = NotAString
               \/ Lower(rpc'.request.priority) \notin Priorities) => RejectedUnchanged]_vars

\* a submit_job request for A with the priority "urgent" was answered with
\* an error while the store held a job
C28_Witness ==
  /\ rpc.pc = "closed"
  /\ rpc.request.action = "submit_job"
  /\ rpc.request.package_name = "A"
  /\ rpc.request.priority = "urgent"
  /\ ~rpc.responses[1].success
  /\ Len(db.jobs) >= 1

\* C29: a cancel_job request naming an unknown job id or a job that is not
\* pending, and a get_job_logs request naming an unknown job id, are
\* answered with an error response rather than a success response.
C29_ErrorResponses ==
  [][(/\ last'.op = "rpc"
      /\ rpc'.request.kind = "object"
      /\ rpc'.request.job_id \in 1..(MaxRpcJobs + 1)
      /\ \/ /\ rpc'.request.action = "cancel_job"
            /\ ~job_has_status(db, rpc'.request.job_id, "pending")
         \/ /\ rpc'.request.action = "get_job_logs"
            /\ ~get_job_by_id(db, rpc'.request.job_id).found) =>
       /\ Len(rpc'.responses) = 1
       /\ ~rpc'.responses[1].success]_vars

\* C30: every request read to the end of the stream, well-formed, empty,
\* malformed, with an unknown action, or one whose handling raises, is
\* answered with exactly one response envelope, success or error, before
\* the connection is closed.
C30_OneResponse ==
  rpc.pc = "closed" =>
    /\ Len(rpc.responses) = 1
    /\ rpc.responses[1].success \in BOOLEAN
    /\ rpc.responses[1].success <=> rpc.responses[1].error = NoMsg

\* a request that is JSON but no object, whose handling raises, was
\* answered with one error envelope
C30_Witness ==
  /\ rpc.pc = "closed"
  /\ rpc.request.kind = "not_object"
  /\ Len(rpc.responses) = 1
  /\ ~rpc.responses[1].success

\* the job that the answered submission in rpc created is in the list that
\* the get_jobs handled by this step returned, with the submitted values
RoundTrip ==
  \E i \in 1..Len(rpc'.responses[1].data[2]) :
    LET job == rpc'.responses[1].data[2][i]
    IN /\ job.id = rpc.responses[1].data[2]
       /\ job.package_name = rpc.request.package_name
       /\ job.priority = rpc.request.priority
       /\ job.dependencies_list = rpc.request.dependencies
       /\ job.estimated_time = rpc.request.estimated_time

\* C31: after a job is submitted through the client with a valid
\* package_name, a priority of high, medium or low, a dependency list and an
\* estimated_time, a following get_jobs (all jobs) returns a job with the
\* submitted job's id whose package_name, priority, dependencies (field
\* dependencies_list) and estimated_time equal the submitted values.
C31_SubmitGetJobsRoundTrip ==
  [][(/\ rpc.pc = "closed"
      /\ rpc.request \in ClientSubmits
      /\ rpc.responses[1].success
      /\ last'.op = "rpc"
      /\ rpc'.request = client_get_jobs("")) =>
       /\ rpc'.responses[1].success
       /\ RoundTrip]_vars

\* job 2, submitted for B with priority low, dependencies C, A and
\* estimated_time 300, came back from get_jobs after it had been run
C31_Witness ==
  /\ rpc.pc = "closed"
  /\ rpc.request = client_get_jobs("")
  /\ rpc.responses[1].success
  /\ \E i \in 1..Len(rpc.responses[1].data[2]) :
       LET job == rpc.responses[1].data[2][i]
       IN /\ job.id = 2
          /\ job.package_name = "B"
          /\ job.priority = "low"
          /\ job.dependencies_list = <<"C", "A">>
          /\ job.estimated_time = 300
          /\ job.status = "completed"

\* the number of other pending jobs of the list that name the package of
\* job i among their dependencies
UnlockCount(i) ==
  Cardinality({k \in 1..Len(sjobs) :
                 /\ k /= i
                 /\ sjobs[k].status = "pending"
                 /\ sjobs[i].package_name \in ToSet(sjobs[k].dependencies_list)})

\* the score of job i by the formula, in units of 1/ScoreScale
FormulaScore(i) ==
  LET priorityWeight == CASE sjobs[i].priority = "high" -> 3
                          [] sjobs[i].priority = "medium" -> 2
                          [] sjobs[i].priority = "low" -> 1
  IN (4 - priorityWeight) * 100 * ScoreScale
     + Len(sjobs[i].dependencies_list) * 10 * ScoreScale
     + Min2(sjobs[i].estimated_time, 2 * ScoreScale) * 5
     - Min2(now - sjobs[i].submitted_at, 24 * ScoreScale) * 2
     - UnlockCount(i) * 15 * ScoreScale

\* C32: the score that get_next_job computes for a ready job equals
\* (4 - priorityWeight) * 100 + dependencyCount * 10 + min(estimatedHours, 2) * 5
\* - min(ageHours, 24) * 2 - unlockCount * 15, with priorityWeight high = 3,
\* medium = 2, low = 1 and unlockCount the number of other pending jobs that
\* list the job's package as a dependency (the job itself not counted, each
\* other pending job counted once).
C32_ScoreFormula ==
  last.op = "get_next_job" => \A i \in SchedReady : SchedScore(i) = FormulaScore(i)

\* job id is pending and each of its dependencies is the package of a
\* completed job
ReadyPending(id) ==
  /\ job_has_status(db, id, "pending")
  /\ ToSet(get_job_by_id(db, id).job.dependencies_list) \subseteq get_completed_package_names(db)

\* C33: while the worker keeps running, every installation ends and only
\* finitely many jobs are submitted, every pending job whose dependencies are
\* all completed eventually reaches completed or failed.
C33_ReadyJobFinishes ==
  \A id \in JobIds(MaxQueueJobs) :
    ReadyPending(id) ~> (job_has_status(db, id, "completed") \/ job_has_status(db, id, "failed"))

\* stop() of worker w has returned
StopReturned(w) ==
  /\ ~workers[w].running
  /\ workers[w].pc \in {"loop", "install", "stopped"}

\* C34: once stop() has returned, the stored worker status has
\* is_active = false with current_job_id, process_id and started_at null, and
\* no later write of the worker's heartbeat loop or of the end of a job
\* execution makes it active again.
C34_StoppedStaysInactive ==
  StopReturned("w1") =>
    LET worker_status == get_worker_status(db)
    IN /\ worker_status.present
       /\ ~worker_status.is_active
       /\ worker_status.current_job_id = None
       /\ worker_status.process_id = None
       /\ worker_status.started_at = None

\* C35: a job whose cancel has returned true (its status has been written as
\* cancelled) keeps the status cancelled for as long as it is in the store,
\* and no worker begins its installation, under every interleaving of the
\* cancel with the worker's selection and mark_job_running.
C35_CancelledStaysCancelled ==
  [][\A i \in 1..Len(db.jobs) :
       db.jobs[i].status = "cancelled" =>
         /\ \A k \in 1..Len(db'.jobs) :
              db'.jobs[k].id = db.jobs[i].id => db'.jobs[k].status = "cancelled"
         /\ \A w \in Workers :
              (workers'[w].pc = "install" /\ workers[w].pc /= "install")
                => workers'[w].job_id /= db.jobs[i].id]_vars

\* the timestamps of a job record match its status
TimestampsMatch(job) ==
  CASE job.status = "pending" -> job.started_at = None /\ job.completed_at = None
    [] job.status = "running" -> job.started_at /= None /\ job.completed_at = None
    [] job.status \in {"completed", "failed"} ->
         /\ job.started_at /= None
         /\ job.completed_at /= None
         /\ job.actual_time = job.completed_at - job.started_at
         /\ job.actual_time >= 0
    [] job.status = "cancelled" -> job.started_at = None /\ job.completed_at /= None

\* C36: in every reachable state the timestamps of each job match its
\* status: pending jobs have neither started_at nor completed_at, running jobs
\* have started_at only, completed and failed jobs have both with
\* actual_time = completed_at - started_at >= 0, cancelled jobs have
\* completed_at only.
C36_TimestampsMatchStatus ==
  \A i \in 1..Len(db.jobs) : TimestampsMatch(db.jobs[i])

\* job id was left running by the dead worker and its successor has started
Orphaned(id) ==
  /\ workers["w1"].pc = "dead"
  /\ workers["w1"].job_id = id
  /\ job_has_status(db, id, "running")
  /\ workers["w2"].running

\* C37: when the worker dies while a job is running and a new worker takes
\* over after the heartbeat has expired, the job left running eventually
\* reaches a terminal status.
C37_OrphanedJobEnds ==
  \A id \in JobIds(MaxCrashJobs) :
    Orphaned(id) ~> \E st \in Terminal : job_has_status(db, id, st)

\* the pending jobs of the list have distinct packages and the dependencies
\* among them form no cycle; dependencies on other packages are allowed
PendingAcyclic ==
  LET pkgs == {OrderPending[i].package_name : i \in 1..Len(OrderPending)}
  IN /\ \A i, k \in 1..Len(OrderPending) :
          OrderPending[i].package_name = OrderPending[k].package_name => i = k
     /\ \E rank \in [pkgs -> 1..Len(OrderPending)] :
          \A i \in 1..Len(OrderPending) :
            \A d \in ToSet(OrderPending[i].dependencies_list) \cap pkgs :
              rank[d] < rank[OrderPending[i].package_name]

\* C38: in the output of optimize_job_order, whenever a pending job X lists
\* the package of another pending job Y as a dependency and the dependencies
\* among the pending jobs are acyclic, Y precedes X, also when some jobs
\* depend on packages that belong to no job of the list.
C38_OrderRespectsDependenciesOpen ==
  (analysis.op = "order" /\ PendingAcyclic) =>
    \A i, k \in 1..Len(analysis.order) :
      analysis.order[k].package_name \in ToSet(analysis.order[i].dependencies_list) => k < i

\* C39: whenever get_next_job_to_run returns a job, the order that
\* get_optimized_queue_order computes on the same state of the store starts
\* with that job, also when pending jobs depend on completed packages.
C39_OrderStartsWithNextJob ==
  (last.op = "plan" /\ sout.found) =>
    /\ analysis.order /= <<>>
    /\ analysis.order[1].id = sout.job.id

\* the retry jobs in the store; with one root job they all come from it and
\* from its retries
RetryJobs == {i \in 1..Len(db.jobs) : db.jobs[i].is_retry}

\* C40: for a root job, the number of retry jobs created from it and from
\* its retries never exceeds its max_retries, whatever the sequence of
\* failures and retries of the root and of its retry jobs.
C40_RetriesBounded ==
  \A i \in 1..Len(db.jobs) :
    ~db.jobs[i].is_retry => Cardinality(RetryJobs) <= db.jobs[i].max_retries

====
